---- MODULE Spec2Model ----
(***************************************************************************)
(* Verification model of the SMSF allocation/performance analysis core:   *)
(* the fund analysis engine (engines/performanceEngine.js) and the fund    *)
(* model builder (engines/fundModel.js).                                   *)
(*                                                                         *)
(* JavaScript values are modelled as tagged records:                       *)
(*   null       [type |-> "null"]                                          *)
(*   undefined  [type |-> "undefined"]   (also: a key missing from an      *)
(*                                        object, see Get)                 *)
(*   number     [type |-> "number", val |-> n]                             *)
(*   string     [type |-> "string", str |-> s]                             *)
(*   array      [type |-> "array", items |-> <<...>>]                      *)
(*   object     a record without a "type" field                            *)
(*                                                                         *)
(* Units.  Every percentage (TWR, benchmark return, difference, growth     *)
(* percent, ...) is an integer number of hundredths of a percentage point  *)
(* (12.95% is 1295, the 2.0 threshold is 200, 30% is 3000).  Money is an   *)
(* integer number of currency units.  Quotients are computed exactly.      *)
(***************************************************************************)
EXTENDS Integers, Sequences, FiniteSets, TLC

VARIABLES
    fund,       \* the FundModel snapshot held by the caller (null before any)
    now,        \* the clock read by new Date()
    stage,      \* how the current snapshot was built (see the actions)
    rawAlloc,   \* the allocation report most recently given to the builder
    rawPerf,    \* the performance report most recently given to the builder
    lastOp,     \* the builder operation that produced the current snapshot
    call,       \* engine function call under examination (SpecEngine)
    result,     \* what that call returned
    wizard      \* the UploadWizard component: its state, the uploads in
                \* flight and the callbacks it has invoked (SpecWizard)

vars == <<fund, now, stage, rawAlloc, rawPerf, lastOp, call, result, wizard>>

-----------------------------------------------------------------------------
(* JavaScript value layer *)

NULL == [type |-> "null"]
UNDEFINED == [type |-> "undefined"]
Num(n) == [type |-> "number", val |-> n]
Str(s) == [type |-> "string", str |-> s]
Arr(s) == [type |-> "array", items |-> s]

IsTagged(x) == "type" \in DOMAIN x
IsNullish(x) == IsTagged(x) /\ x.type \in {"null", "undefined"}
IsNumber(x) == IsTagged(x) /\ x.type = "number"
IsString(x) == IsTagged(x) /\ x.type = "string"
IsArray(x) == IsTagged(x) /\ x.type = "array"
IsObject(x) == ~IsTagged(x)

\* !!x
Truthy(x) ==
    IF IsObject(x) \/ IsArray(x) THEN TRUE
    ELSE IF IsNullish(x) THEN FALSE
    ELSE IF IsNumber(x) THEN x.val # 0
    ELSE x.str # ""

\* a || b
Or(a, b) == IF Truthy(a) THEN a ELSE b
\* a ?? b
Coalesce(a, b) == IF IsNullish(a) THEN b ELSE a
\* o?.k : undefined for a missing key and for a null/undefined o
Get(o, k) == IF IsObject(o) /\ k \in DOMAIN o THEN o[k] ELSE UNDEFINED

Max(a, b) == IF a >= b THEN a ELSE b
Min(a, b) == IF a <= b THEN a ELSE b

RECURSIVE Gcd(_, _)
Gcd(a, b) == IF b = 0 THEN a ELSE Gcd(b, a % b)

\* The exact quotient n/d (d > 0) of two integers, as a number in lowest terms.
Quot(n, d) ==
    LET g == Gcd(IF n < 0 THEN -n ELSE n, d)
    IN  IF g = 0 THEN Num(0)
        ELSE IF d \div g = 1 THEN Num(n \div g)
        ELSE [type |-> "number", val |-> n \div g, den |-> d \div g]

-----------------------------------------------------------------------------
(* utils/constants.js *)

DEFENSIVE_MAX == 3000
GROWTH_MIN == 7000

GROWTH_ASSET_CLASSES ==
    {"Australian Equities", "International Equities", "Listed Property",
     "Direct Property"}

DEFENSIVE_ASSET_CLASSES ==
    {"Australian Fixed Interest", "International Fixed Interest", "Cash",
     "Foreign Cash", "Mortgages"}

BENCHMARKS ==
    [defensive |->
        [name |-> Str("Conservative Benchmark"),
         description |-> Str("Weighted average of defensive asset indices"),
         composition |-> Str("70% Fixed Interest, 20% Cash, 10% Equities"),
         returns |-> [oneYear |-> Num(550), threeYears |-> Num(420),
                      fiveYears |-> Num(380), sinceInception |-> Num(400)],
         riskLevel |-> Str("Low"),
         volatility |-> Num(350)],
     balanced |->
        [name |-> Str("Balanced Benchmark"),
         description |-> Str("Diversified multi-asset benchmark"),
         composition |-> Str("50% Equities, 30% Fixed Interest, 15% Property, 5% Cash"),
         returns |-> [oneYear |-> Num(850), threeYears |-> Num(680),
                      fiveYears |-> Num(720), sinceInception |-> Num(700)],
         riskLevel |-> Str("Medium"),
         volatility |-> Num(850)],
     growth |->
        [name |-> Str("Growth Benchmark"),
         description |-> Str("High equity exposure benchmark"),
         composition |-> Str("80% Equities, 10% Property, 10% Other"),
         returns |-> [oneYear |-> Num(1150), threeYears |-> Num(920),
                      fiveYears |-> Num(1050), sinceInception |-> Num(980)],
         riskLevel |-> Str("High"),
         volatility |-> Num(1400)]]

STRONG_OUTPERFORMANCE == 200
SLIGHT_OUTPERFORMANCE == 50
SLIGHT_UNDERPERFORMANCE == -50
STRONG_UNDERPERFORMANCE == -200
EXCELLENT_RETURN == 1500
GOOD_RETURN == 800
MODERATE_RETURN == 400
POOR_RETURN == 0

-----------------------------------------------------------------------------
(* engines/performanceEngine.js *)

\* toNumber(x): Number(x) when finite, else 0 (Number(null) = 0,
\* Number(undefined) = NaN); the result is a plain integer.
toNumber(x) == IF IsNumber(x) THEN x.val ELSE 0

\* round1 with Math.floor in place of Math.round.
round1Truncating(n, d) == 10 * ((1000 * n) \div d)

\* round1(100 * n / d) for d > 0: Math.round(x * 10) / 10, Math.round being
\* floor(x + 0.5); the result is in hundredths of a percent.
round1(n, d) == 10 * ((2000 * n + d) \div (2 * d))

RECURSIVE SumValues(_)
SumValues(s) ==
    IF s = <<>> THEN 0 ELSE toNumber(Get(Head(s), "value")) + SumValues(Tail(s))

SelectByName(s, names) ==
    SelectSeq(s, LAMBDA ac :
        IsString(Get(ac, "name")) /\ Get(ac, "name").str \in names)

\* The no-data classification coerced to 'balanced'.
UnknownAsBalanced ==
    [classification |-> "balanced", growthPercent |-> Num(0),
     defensivePercent |-> Num(0), otherPercent |-> Num(0)]

UnknownClassification ==
    [classification |-> "unknown", growthPercent |-> Num(0),
     defensivePercent |-> Num(0), otherPercent |-> Num(0)]

\* ClassificationTag with the thresholds themselves counted as outside the
\* balanced band.
ClassificationTagInclusive(growthValue, totalValue) ==
    IF 10000 * growthValue <= DEFENSIVE_MAX * totalValue THEN "defensive"
    ELSE IF 10000 * growthValue >= GROWTH_MIN * totalValue THEN "growth"
    ELSE "balanced"

\* The tag for a growth share of growthValue / totalValue (totalValue > 0):
\* growthPercent < DEFENSIVE_MAX, growthPercent > GROWTH_MIN on the unrounded
\* quotient.
ClassificationTag(growthValue, totalValue) ==
    IF 10000 * growthValue < DEFENSIVE_MAX * totalValue THEN "defensive"
    ELSE IF 10000 * growthValue > GROWTH_MIN * totalValue THEN "growth"
    ELSE "balanced"

\* 100 - growthPercent - defensivePercent clamped at 0, as a numerator over
\* totalValue.
OtherShare(growthValue, defensiveValue, totalValue) ==
    Max(0, totalValue - growthValue - defensiveValue)

classifyFund(assetClassesArg) ==
    LET assetClasses ==
            IF assetClassesArg = UNDEFINED THEN Arr(<<>>) ELSE assetClassesArg
    IN  IF ~IsArray(assetClasses) THEN UnknownClassification
        ELSE IF Len(assetClasses.items) = 0 THEN UnknownClassification
        ELSE
          LET items == assetClasses.items
              totalValue == SumValues(items)
              growthValue == SumValues(SelectByName(items, GROWTH_ASSET_CLASSES))
              defensiveValue ==
                  SumValues(SelectByName(items, DEFENSIVE_ASSET_CLASSES))
              \* The quotients below are those of the three sums; they are
              \* computed on the sums divided by their common divisor.
              unit == Gcd(totalValue,
                          Gcd(IF growthValue < 0 THEN -growthValue ELSE growthValue,
                              IF defensiveValue < 0 THEN -defensiveValue
                              ELSE defensiveValue))
              total == totalValue \div unit
              growth == growthValue \div unit
              defensive == defensiveValue \div unit
          IN  IF totalValue <= 0 THEN UnknownClassification
              ELSE
                [classification |-> ClassificationTag(growth, total),
                 growthPercent |-> Num(round1(growth, total)),
                 defensivePercent |-> Num(round1(defensive, total)),
                 otherPercent |->
                     Num(round1(OtherShare(growth, defensive, total), total))]

\* BENCHMARKS is an object literal: a key it does not own is looked up in
\* Object.prototype, whose properties are these.
OBJECT_PROTOTYPE_KEYS ==
    {"constructor", "toString", "toLocaleString", "valueOf", "hasOwnProperty",
     "isPrototypeOf", "propertyIsEnumerable", "__proto__",
     "__defineGetter__", "__defineSetter__", "__lookupGetter__",
     "__lookupSetter__"}

\* The value of an inherited property (a function, or the prototype object).
InheritedProperty(key) == [type |-> "inherited", name |-> key]

\* BENCHMARKS[key]
BenchmarkProperty(key) ==
    IF key \in DOMAIN BENCHMARKS THEN BENCHMARKS[key]
    ELSE IF key \in OBJECT_PROTOTYPE_KEYS THEN InheritedProperty(key)
    ELSE UNDEFINED

getBenchmark(classification) ==
    LET key == IF IsString(classification) THEN classification.str
               ELSE "balanced"
    IN  Coalesce(BenchmarkProperty(key), BENCHMARKS.balanced)

\* getPerformanceStatus with strict comparisons.
getPerformanceStatusStrict(difference) ==
    IF difference > STRONG_OUTPERFORMANCE THEN "strong_outperformance"
    ELSE IF difference > SLIGHT_OUTPERFORMANCE THEN "slight_outperformance"
    ELSE IF difference > SLIGHT_UNDERPERFORMANCE THEN "inline"
    ELSE IF difference > STRONG_UNDERPERFORMANCE THEN "slight_underperformance"
    ELSE "strong_underperformance"

getPerformanceStatus(difference) ==
    IF difference >= STRONG_OUTPERFORMANCE THEN "strong_outperformance"
    ELSE IF difference >= SLIGHT_OUTPERFORMANCE THEN "slight_outperformance"
    ELSE IF difference >= SLIGHT_UNDERPERFORMANCE THEN "inline"
    ELSE IF difference >= STRONG_UNDERPERFORMANCE THEN "slight_underperformance"
    ELSE "strong_underperformance"

\* The guard of one horizon: the fund value is neither null nor undefined and
\* the benchmark return is not undefined.
HorizonPresent(fundValue, benchmarkValue) ==
    ~IsNullish(fundValue) /\ benchmarkValue # UNDEFINED

\* One horizon of compareToBenchmark.  The subtraction coerces a null
\* benchmark return to 0.
CompareHorizon(fundValue, benchmarkValue) ==
    IF HorizonPresent(fundValue, benchmarkValue)
    THEN LET diff == toNumber(fundValue) - toNumber(benchmarkValue)
         IN  [fundReturn |-> fundValue,
              benchmarkReturn |-> benchmarkValue,
              difference |-> Num(diff),
              status |-> getPerformanceStatus(diff)]
    ELSE NULL

NoComparisons == [oneYear |-> NULL, threeYears |-> NULL, sinceInception |-> NULL]

compareToBenchmark(fundPerformance, benchmark) ==
    IF ~Truthy(fundPerformance) \/ ~Truthy(Get(benchmark, "returns"))
    THEN NoComparisons
    ELSE
      LET returns == Get(benchmark, "returns")
      IN  [oneYear |->
               CompareHorizon(Get(fundPerformance, "oneYear"),
                              Get(returns, "oneYear")),
           threeYears |->
               CompareHorizon(Get(fundPerformance, "threeYears"),
                              Get(returns, "threeYears")),
           sinceInception |->
               CompareHorizon(Get(fundPerformance, "sinceStart"),
                              Get(returns, "sinceInception"))]

\* The absolute-return band added to the score.
ReturnBand(oneYear) ==
    IF IsNullish(oneYear) THEN 0
    ELSE IF toNumber(oneYear) >= EXCELLENT_RETURN THEN 1500
    ELSE IF toNumber(oneYear) >= GOOD_RETURN THEN 1000
    ELSE IF toNumber(oneYear) >= MODERATE_RETURN THEN 500
    ELSE IF toNumber(oneYear) < POOR_RETURN THEN -1000
    ELSE 0

\* calculatePerformanceScore without the clamp of the relative component.
calculatePerformanceScoreUnclamped(performance, comparison) ==
    IF ~Truthy(performance) \/ ~Truthy(comparison) THEN NULL
    ELSE
      LET rel == IF Truthy(Get(comparison, "oneYear"))
                 THEN 5 * comparison.oneYear.difference.val
                 ELSE 0
          score == 5000 + rel + ReturnBand(Get(Get(performance, "twr"), "oneYear"))
      IN  Num(Min(Max((score + 50) \div 100, 0), 100))

\* The score is accumulated in hundredths of a point and rounded at the end.
calculatePerformanceScore(performance, comparison) ==
    IF ~Truthy(performance) \/ ~Truthy(comparison) THEN NULL
    ELSE
      LET base == 5000
          rel == IF Truthy(Get(comparison, "oneYear"))
                 THEN Min(Max(5 * comparison.oneYear.difference.val, -2500), 2500)
                 ELSE 0
          score == base + rel + ReturnBand(Get(Get(performance, "twr"), "oneYear"))
      IN  Num(Min(Max((score + 50) \div 100, 0), 100))

\* The sum of the k largest values of a list of holdings
\* ([...holdings].sort(desc by value).slice(0, k), then reduce).
RECURSIVE TopValueSum(_, _)
TopValueSum(s, k) ==
    IF k = 0 \/ s = <<>> THEN 0
    ELSE
      LET i == CHOOSE i \in 1..Len(s) :
                   \A j \in 1..Len(s) :
                       toNumber(Get(s[i], "value")) >= toNumber(Get(s[j], "value"))
          rest == [j \in 1..(Len(s) - 1) |-> IF j < i THEN s[j] ELSE s[j + 1]]
      IN  toNumber(Get(s[i], "value")) + TopValueSum(rest, k - 1)

DataInsight(flags) ==
    IF ~flags.hasAllocation
    THEN <<[type |-> "data", title |-> "Asset Allocation Missing",
            description |-> <<"Asset allocation data was not detected">>,
            importance |-> "high"]>>
    ELSE <<>>

\* charAt(0).toUpperCase() + slice(1)
ClassLabel(tag) ==
    CASE tag = "defensive" -> "Defensive"
      [] tag = "balanced" -> "Balanced"
      [] tag = "growth" -> "Growth"
      [] OTHER -> tag

ClassificationInsight(classification) ==
    IF classification.classification # "unknown"
    THEN <<[type |-> "classification",
            title |-> ClassLabel(classification.classification)
                        \o " Investment Profile",
            description |-> <<"growth assets", classification.growthPercent,
                              classification.classification>>,
            importance |-> "high"]>>
    ELSE <<>>

\* status.includes('outperformance') / status === 'inline' / otherwise
PerformanceWording(status) ==
    IF status \in {"strong_outperformance", "slight_outperformance"}
    THEN "outperformed"
    ELSE IF status = "inline" THEN "in line" ELSE "underperformed"

\* Importance that follows the direction of the status instead of its
\* strength.
PerformanceImportanceByDirection(status) ==
    IF status \in {"strong_outperformance", "slight_outperformance"}
    THEN "high" ELSE "medium"

\* status.includes('strong') ? 'high' : 'medium'
PerformanceImportance(status) ==
    IF status \in {"strong_outperformance", "strong_underperformance"}
    THEN "high" ELSE "medium"

PerformanceInsight(comparison) ==
    IF Truthy(Get(comparison, "oneYear"))
    THEN LET diff == comparison.oneYear.difference.val
             status == comparison.oneYear.status
         IN  <<[type |-> "performance", title |-> "Benchmark Comparison",
                description |->
                    IF status = "inline" THEN <<PerformanceWording(status)>>
                    ELSE <<PerformanceWording(status),
                           Num(IF diff < 0 THEN -diff ELSE diff)>>,
                importance |-> PerformanceImportance(status)]>>
    ELSE <<>>

ConcentrationInsight(assetAllocation) ==
    LET holdings == Get(assetAllocation, "holdings")
        totalValue == toNumber(Get(assetAllocation, "totalValue"))
    IN  IF Truthy(holdings) /\ IsArray(holdings)
           /\ Len(holdings.items) > 0 /\ totalValue > 0
           /\ 100 * TopValueSum(holdings.items, 5) > 40 * totalValue
        THEN <<[type |-> "concentration", title |-> "Portfolio Concentration",
                description |->
                    <<"top 5 holdings",
                      Num(round1(TopValueSum(holdings.items, 5), totalValue))>>,
                importance |-> "medium"]>>
        ELSE <<>>

ReturnInsight(performance) ==
    LET dollarReturn ==
            Coalesce(Coalesce(Get(performance, "dollarReturnAfterExpenses"),
                              Get(performance, "dollarReturn")), NULL)
    IN  IF ~IsNullish(dollarReturn)
        THEN <<[type |-> "return", title |-> "Total Dollar Return",
                description |->
                    <<IF toNumber(dollarReturn) > 0 THEN "gained" ELSE "lost",
                      Num(IF toNumber(dollarReturn) < 0
                          THEN -toNumber(dollarReturn)
                          ELSE toNumber(dollarReturn))>>,
                importance |-> "high"]>>
        ELSE <<>>

\* generateInsights with the benchmark insight put before the classification
\* insight.
generateInsightsPerformanceFirst(assetAllocation, performance, classification, comparison, flags) ==
    DataInsight(flags)
      \o PerformanceInsight(comparison)
      \o ClassificationInsight(classification)
      \o ConcentrationInsight(assetAllocation)
      \o ReturnInsight(performance)

generateInsights(assetAllocation, performance, classification, comparison, flags) ==
    DataInsight(flags)
      \o ClassificationInsight(classification)
      \o PerformanceInsight(comparison)
      \o ConcentrationInsight(assetAllocation)
      \o ReturnInsight(performance)

PARTIAL_MESSAGE ==
    Str("Upload both reports for complete analysis. Cannot classify fund without asset allocation data.")

\* hasAllocation: !!assetAllocation && Array.isArray(assetClasses) && length > 0
HasAllocation(assetAllocation) ==
    /\ Truthy(assetAllocation)
    /\ IsArray(Get(assetAllocation, "assetClasses"))
    /\ Len(Get(assetAllocation, "assetClasses").items) > 0

\* hasPerformance: !!performance && !!performance.twr
HasPerformance(performance) ==
    Truthy(performance) /\ Truthy(Get(performance, "twr"))

\* 'complete' as soon as one of the two is there.
AnalysisStatusEither(hasAllocation, hasPerformance) ==
    IF hasAllocation \/ hasPerformance THEN "complete" ELSE "partial"

\* status: hasAllocation && hasPerformance ? 'complete' : 'partial'
AnalysisStatus(hasAllocation, hasPerformance) ==
    IF hasAllocation /\ hasPerformance THEN "complete" ELSE "partial"

analyzeFund(assetAllocation, performance) ==
    LET hasAllocation == HasAllocation(assetAllocation)
        hasPerformance == HasPerformance(performance)
        classification ==
            IF hasAllocation THEN classifyFund(assetAllocation.assetClasses)
            ELSE UnknownClassification
        benchmark == getBenchmark(Str(classification.classification))
        fundPerf ==
            IF hasPerformance
            THEN [oneYear |-> Coalesce(Get(performance.twr, "oneYear"), NULL),
                  threeYears |-> Coalesce(Get(performance.twr, "threeYears"), NULL),
                  sinceStart |-> Coalesce(Get(performance.twr, "sinceStart"), NULL)]
            ELSE NULL
        benchmarkComparison ==
            IF Truthy(fundPerf) THEN compareToBenchmark(fundPerf, benchmark)
            ELSE NULL
    IN  [classification |-> classification,
         benchmark |-> [name |-> benchmark.name,
                        description |-> benchmark.description,
                        composition |-> benchmark.composition,
                        riskLevel |-> benchmark.riskLevel],
         benchmarkComparison |-> benchmarkComparison,
         performanceScore |->
             calculatePerformanceScore(performance, benchmarkComparison),
         insights |->
             generateInsights(assetAllocation, performance, classification,
                              benchmarkComparison,
                              [hasAllocation |-> hasAllocation,
                               hasPerformance |-> hasPerformance]),
         status |-> AnalysisStatus(hasAllocation, hasPerformance),
         message |-> IF hasAllocation /\ hasPerformance THEN NULL
                     ELSE PARTIAL_MESSAGE]

-----------------------------------------------------------------------------
(* engines/fundModel.js *)

\* One entry of normalizeAssetClasses' map.
NormalizeAssetClass(ac, totalValue) ==
    LET value == Coalesce(Get(ac, "value"), Num(0))
        given == Get(ac, "percent")
        percent ==
            IF IsNullish(given) /\ toNumber(totalValue) > 0
            THEN Quot(10000 * toNumber(value), toNumber(totalValue))
            ELSE given
    IN  [name |-> Or(Get(ac, "name"), Str("Unknown")),
         value |-> value,
         percent |-> Coalesce(percent, Num(0)),
         source |-> Or(Get(ac, "source"), Str("parsed"))]

normalizeAssetClasses(assetClasses, totalValue) ==
    IF ~IsArray(assetClasses) THEN Arr(<<>>)
    ELSE IF Len(assetClasses.items) = 0 THEN Arr(<<>>)
    ELSE Arr([i \in 1..Len(assetClasses.items) |->
                 NormalizeAssetClass(assetClasses.items[i], totalValue)])

normalizePeriod(period) ==
    IF ~Truthy(period) THEN [start |-> NULL, end |-> NULL]
    ELSE [start |-> Or(Or(Get(period, "start"), Get(period, "startDate")), NULL),
          end |-> Or(Or(Get(period, "end"), Get(period, "endDate")), NULL)]

\* a ?? b ?? c ?? null
Coalesce3(a, b, c) == Coalesce(Coalesce(Coalesce(a, b), c), NULL)

normalizePerformanceTwr(twr) ==
    IF ~Truthy(twr) THEN NULL
    ELSE [oneYear |-> Coalesce3(Get(twr, "oneYear"), Get(twr, "1year"),
                                Get(twr, "1Year")),
          threeYears |-> Coalesce3(Get(twr, "threeYears"), Get(twr, "3years"),
                                   Get(twr, "3Years")),
          fiveYears |-> Coalesce3(Get(twr, "fiveYears"), Get(twr, "5years"),
                                  Get(twr, "5Years")),
          sinceStart |-> Coalesce3(Get(twr, "sinceStart"),
                                   Get(twr, "sinceInception"),
                                   Get(twr, "inception"))]

\* holdingsCount || (holdings?.length || 0)
HoldingsCount(report) ==
    LET holdings == Get(report, "holdings")
    IN  Or(Get(report, "holdingsCount"),
           Or(IF IsArray(holdings) THEN Num(Len(holdings.items)) ELSE UNDEFINED,
              Num(0)))

\* The performance slot both builders store for a performance report.
PerformanceSlot(performance) ==
    [period |-> normalizePeriod(Get(performance, "period")),
     startingValue |->
         Coalesce(Coalesce(Get(performance, "startingMarketValue"),
                           Get(performance, "startingValue")), NULL),
     endingValue |->
         Coalesce(Coalesce(Get(performance, "endingMarketValue"),
                           Get(performance, "endingValue")), NULL),
     dollarReturn |->
         Coalesce(Coalesce(Get(performance, "dollarReturnAfterExpenses"),
                           Get(performance, "dollarReturn")), NULL),
     twr |-> normalizePerformanceTwr(Get(performance, "twr"))]

\* The allocation slot createFundModel stores: totalValue is kept as given.
CreatedAllocationSlot(assetAllocation) ==
    [asAtDate |-> Get(assetAllocation, "asAtDate"),
     totalValue |-> Get(assetAllocation, "totalValue"),
     assetClasses |->
         normalizeAssetClasses(Get(assetAllocation, "assetClasses"),
                               Get(assetAllocation, "totalValue")),
     holdings |-> Or(Get(assetAllocation, "holdings"), Arr(<<>>)),
     holdingsCount |-> HoldingsCount(assetAllocation)]

\* The allocation slot updateFundModel stores: totalValue || 0.
UpdatedAllocationSlot(newReportData) ==
    LET totalValue == Or(Get(newReportData, "totalValue"), Num(0))
    IN  [asAtDate |-> Get(newReportData, "asAtDate"),
         totalValue |-> totalValue,
         assetClasses |->
             normalizeAssetClasses(Get(newReportData, "assetClasses"), totalValue),
         holdings |-> Or(Get(newReportData, "holdings"), Arr(<<>>)),
         holdingsCount |-> HoldingsCount(newReportData)]

\* The derived fields both builders copy out of an analysis.
DerivedFields(analysis) ==
    [classification |->
         [classification |-> analysis.classification.classification,
          growthPercent |-> Coalesce(analysis.classification.growthPercent, Num(0)),
          defensivePercent |->
              Coalesce(analysis.classification.defensivePercent, Num(0)),
          otherPercent |-> Coalesce(analysis.classification.otherPercent, Num(0))],
     benchmark |->
         [name |-> Or(analysis.benchmark.name, Str("Benchmark")),
          description |-> Or(analysis.benchmark.description, Str("")),
          composition |-> Or(analysis.benchmark.composition, NULL),
          riskLevel |-> Or(analysis.benchmark.riskLevel, NULL)],
     benchmarkComparison |-> Or(analysis.benchmarkComparison, NULL),
     performanceScore |-> analysis.performanceScore,
     derivedInsights |-> analysis.insights,
     analysisStatus |-> analysis.status,
     analysisMessage |-> Or(analysis.message, NULL)]

\* A FundModel from its identity, its two report slots and an analysis.
FundRecord(fundId, date, assetAllocation, performance, derived) ==
    [fundId |-> fundId,
     lastUpdated |-> date,
     assetAllocation |-> assetAllocation,
     performance |-> performance,
     classification |-> derived.classification,
     benchmark |-> derived.benchmark,
     benchmarkComparison |-> derived.benchmarkComparison,
     performanceScore |-> derived.performanceScore,
     derivedInsights |-> derived.derivedInsights,
     analysisStatus |-> derived.analysisStatus,
     analysisMessage |-> derived.analysisMessage]

\* createFundModel(fundId, {assetAllocation, performance}) at time date: the
\* analysis runs on the reports as given, the slots hold them normalized.
createFundModel(fundId, assetAllocation, performance, date) ==
    FundRecord(fundId, date,
               IF Truthy(assetAllocation)
               THEN CreatedAllocationSlot(assetAllocation) ELSE NULL,
               IF Truthy(performance) THEN PerformanceSlot(performance) ELSE NULL,
               DerivedFields(analyzeFund(assetAllocation, performance)))

\* updateFundModel rebuilding the model from the new report alone, as
\* createFundModel does for a single report.
updateFundModelRebuilding(existingFund, newReportType, newReportData, date) ==
    createFundModel(existingFund.fundId,
                    IF newReportType = "asset_allocation" THEN newReportData ELSE NULL,
                    IF newReportType = "performance" THEN newReportData ELSE NULL,
                    date)

\* updateFundModel running the analysis for an allocation report only: a
\* performance report is stored and the derived fields are kept.
updateFundModelStaleAnalysis(existingFund, newReportType, newReportData, date) ==
    IF newReportType = "asset_allocation"
    THEN FundRecord(existingFund.fundId, date,
                    UpdatedAllocationSlot(newReportData), existingFund.performance,
                    DerivedFields(analyzeFund(UpdatedAllocationSlot(newReportData),
                                              existingFund.performance)))
    ELSE [existingFund EXCEPT !.lastUpdated = date,
                              !.performance = PerformanceSlot(newReportData)]

\* updateFundModel(existingFund, newReportType, newReportData) at time date:
\* one slot is replaced, the analysis runs on the stored slots.
updateFundModel(existingFund, newReportType, newReportData, date) ==
    LET assetAllocation ==
            IF newReportType = "asset_allocation"
            THEN UpdatedAllocationSlot(newReportData)
            ELSE existingFund.assetAllocation
        performance ==
            IF newReportType = "performance"
            THEN PerformanceSlot(newReportData)
            ELSE existingFund.performance
    IN  FundRecord(existingFund.fundId, date, assetAllocation, performance,
                   DerivedFields(analyzeFund(assetAllocation, performance)))

\* updateFundModel writing to the object passed instead of a copy: the
\* caller's snapshot carries the new time afterwards.
existingFundAfterUpdateInPlace(existingFund) ==
    [existingFund EXCEPT !.lastUpdated = existingFund.lastUpdated + 1]

\* The model passed to updateFundModel as it is after the call: the function
\* writes to a copy ({ ...existingFund }) and builds the slot and the derived
\* fields it assigns as new objects, so the object passed keeps every field.
existingFundAfterUpdate(existingFund) == existingFund

validateFundModel(fundModel) ==
    LET assetAllocation == fundModel.assetAllocation
        performance == fundModel.performance
        errors ==
            IF ~Truthy(assetAllocation) /\ ~Truthy(performance)
            THEN <<"Fund must have at least one report type parsed">> ELSE <<>>
        warnings ==
            (IF fundModel.classification.classification = "unknown"
             THEN IF ~Truthy(assetAllocation)
                  THEN <<"Cannot classify fundModel without asset allocation data">>
                  ELSE <<"Fund classification could not be determined">>
             ELSE <<>>)
            \o (IF Truthy(performance) /\ ~Truthy(fundModel.benchmarkComparison)
                THEN <<"Benchmark comparison not available">> ELSE <<>>)
            \o (IF Truthy(assetAllocation)
                     /\ (\/ ~Truthy(assetAllocation.totalValue)
                         \/ assetAllocation.totalValue.val <= 0)
                THEN <<"Total portfolio value is missing or zero">> ELSE <<>>)
            \o (IF Truthy(assetAllocation)
                     /\ assetAllocation.assetClasses.items = <<>>
                THEN <<"Asset class breakdown is missing">> ELSE <<>>)
            \o (IF Truthy(performance) /\ performance.dollarReturn = NULL
                THEN <<"Dollar return figure is missing">> ELSE <<>>)
            \o (IF Truthy(performance)
                     /\ (\/ ~Truthy(performance.twr)
                         \/ performance.twr.oneYear = NULL)
                THEN <<"1-year TWR is missing">> ELSE <<>>)
    IN  [valid |-> errors = <<>>,
         errors |-> errors,
         warnings |-> warnings,
         hasAssetAllocation |-> Truthy(assetAllocation),
         hasPerformance |-> Truthy(performance),
         isComplete |-> Truthy(assetAllocation) /\ Truthy(performance)]

EMPTY_MESSAGE ==
    Str("No reports uploaded. Please upload asset allocation and/or performance reports.")

createEmptyFundModel(fundId, date) ==
    [fundId |-> Or(fundId, Str("FUND-" \o ToString(date) \o "-empty")),
     lastUpdated |-> date,
     assetAllocation |-> NULL,
     performance |-> NULL,
     classification |-> UnknownClassification,
     benchmark |-> NULL,
     benchmarkComparison |-> NULL,
     performanceScore |-> NULL,
     derivedInsights |-> <<>>,
     analysisStatus |-> "empty",
     analysisMessage |-> EMPTY_MESSAGE]

-----------------------------------------------------------------------------
(* Bounds and the reports the operations are exercised on *)

MaxTime == 2        \* the clock runs over 0..MaxTime
MaxClasses == 3     \* longest asset-class list given to classifyFund
MaxValue == 4       \* asset-class values range over -MaxValue..MaxValue
MaxDiff == 260      \* differences given to getPerformanceStatus: -MaxDiff..MaxDiff
MaxTextLines == 2   \* most lines of a text given to identifyReportType
MaxPageLines == 2   \* most lines on the first page of a document
MaxSectionLines == 3 \* most lines given to the line-scanning extractors

FundIds == {Str("FUND-A"), Str("FUND-B")}

\* parsers/assetAllocationParser.js
ASSET_CLASS_COLUMNS ==
    <<"Australian Equities", "Australian Fixed Interest", "Cash",
      "International Equities", "Listed Property", "Other", "Unknown">>

\* parseTotalRow on a TOTAL row whose dollar tokens parse to `values` and
\* whose percent tokens parse to `percents`: column i takes the i-th of each,
\* and is emitted when either is there.
RECURSIVE TotalRowClasses(_, _, _)
TotalRowClasses(values, percents, i) ==
    IF i > Len(ASSET_CLASS_COLUMNS) THEN <<>>
    ELSE
      LET value == IF i <= Len(values) THEN Num(values[i]) ELSE NULL
          percent == IF i <= Len(percents) THEN Num(percents[i]) ELSE NULL
          rest == TotalRowClasses(values, percents, i + 1)
      IN  IF value # NULL \/ percent # NULL
          THEN <<[name |-> Str(ASSET_CLASS_COLUMNS[i]), value |-> value,
                  percent |-> percent, source |-> Str("total_row")]>> \o rest
          ELSE rest

\* The report parseAssetAllocationReport returns when a TOTAL row is found:
\* totalValue is the sum of (ac.value || 0).
AllocationReportWithTotalRow(asAtDate, values, percents) ==
    LET assetClasses == TotalRowClasses(values, percents, 1)
    IN  [reportType |-> Str("asset_allocation"),
         asAtDate |-> asAtDate,
         totalValue |-> Num(SumValues(assetClasses)),
         assetClasses |-> Arr(assetClasses),
         holdings |-> Arr(<<>>),
         holdingsCount |-> Num(0)]

\* The report parseAssetAllocationReport returns when no TOTAL row is found.
AllocationReportWithoutTotalRow(asAtDate) ==
    [reportType |-> Str("asset_allocation"),
     asAtDate |-> asAtDate,
     totalValue |-> NULL,
     assetClasses |-> Arr(<<>>),
     holdings |-> Arr(<<>>),
     holdingsCount |-> Num(0)]

\* The TOTAL rows exercised, each as <<dollar tokens, percent tokens>>: one
\* growth column, a zero and a defensive column, two equal columns with their
\* percentages, and a row that carries percentages only.
TotalRows ==
    {<<<<600>>, <<>>>>, <<<<0, 600>>, <<>>>>,
     <<<<600, 600>>, <<5000, 5000>>>>, <<<<>>, <<6000, 4000>>>>}

\* An allocation report with holdings, as a caller other than the parser
\* may supply it: the top holdings are 70% of the total.
AllocationReportWithHoldings ==
    [asAtDate |-> Str("2025-06-30"),
     totalValue |-> Num(1000),
     assetClasses |->
         Arr(<<[name |-> Str("Australian Equities"), value |-> Num(1000)]>>),
     holdings |-> Arr(<<[name |-> Str("BHP"), value |-> Num(300)],
                        [name |-> Str("CBA"), value |-> Num(400)]>>)]

AllocInputs ==
    {AllocationReportWithoutTotalRow(NULL), AllocationReportWithHoldings}
      \cup {AllocationReportWithTotalRow(Str("2025-06-30"), r[1], r[2]) :
                r \in TotalRows}

\* parsers/performanceReportParser.js: the report parsePerformanceReport
\* returns, for the TWR row values and the after-expenses dollar return.
PerformanceReport(oneYear, threeYears, sinceStart, dollarReturnAfterExpenses) ==
    [reportType |-> Str("performance"),
     period |-> [from |-> Str("2025-07-01"), to |-> Str("2025-12-07")],
     startingMarketValue |-> Num(1000),
     endingMarketValue |-> Num(1100),
     movementInValue |-> Num(100),
     dollarReturnBeforeExpenses |-> NULL,
     dollarReturnAfterExpenses |-> dollarReturnAfterExpenses,
     investmentExpenses |-> NULL,
     twr |-> [oneYear |-> oneYear, threeYears |-> threeYears,
              sinceStart |-> sinceStart, sincePeriodStart |-> NULL,
              sinceDates |-> Arr(<<>>)]]

\* A performance report under the alias keys normalizePeriod,
\* normalizePerformanceTwr and the value fields also accept.
PerformanceReportWithAliasKeys ==
    [period |-> [startDate |-> Str("2025-07-01"), endDate |-> Str("2025-12-07")],
     startingValue |-> Num(1000),
     endingValue |-> Num(1100),
     dollarReturn |-> Num(-200),
     twr |-> [k \in {"1year", "3years", "sinceInception"} |->
                 IF k = "1year" THEN Num(1295)
                 ELSE IF k = "3years" THEN Num(700) ELSE Num(450)]]

\* A performance report that carries no TWR record.
PerformanceReportWithoutTwr ==
    [period |-> NULL, startingMarketValue |-> Num(1000),
     endingMarketValue |-> Num(1100), dollarReturnAfterExpenses |-> Num(100),
     twr |-> NULL]

PerfInputs ==
    {PerformanceReportWithAliasKeys, PerformanceReportWithoutTwr}
      \cup {PerformanceReport(NULL, NULL, NULL, NULL),
            PerformanceReport(Num(1295), Num(700), NULL, Num(5000)),
            PerformanceReport(Num(-100), NULL, Num(450), NULL)}

-----------------------------------------------------------------------------
(* The fund model's life: the caller holds one snapshot, replaces it by what  *)
(* a builder returns and validates it, keeping the validation in result.     *)

NoCall == [fn |-> "none", args |-> <<>>]

Init ==
    /\ fund = NULL
    /\ now = 0
    /\ stage = "none"
    /\ rawAlloc = NULL
    /\ rawPerf = NULL
    /\ lastOp = [op |-> "none", type |-> ""]
    /\ call = NoCall
    /\ result = NULL
    /\ wizard = NULL

\* Time passes between two operations.
ClockTick ==
    /\ now < MaxTime
    /\ now' = now + 1
    /\ UNCHANGED <<wizard, fund, stage, rawAlloc, rawPerf, lastOp, call, result>>

CreateEmpty ==
    /\ \E id \in FundIds \cup {NULL} : fund' = createEmptyFundModel(id, now)
    /\ stage' = "empty"
    /\ rawAlloc' = NULL
    /\ rawPerf' = NULL
    /\ lastOp' = [op |-> "createEmptyFundModel", type |-> ""]
    /\ result' = validateFundModel(fund')
    /\ UNCHANGED <<wizard, now, call>>

Create ==
    /\ \E id \in FundIds, a \in AllocInputs \cup {NULL}, p \in PerfInputs \cup {NULL} :
          /\ fund' = createFundModel(id, a, p, now)
          /\ rawAlloc' = a
          /\ rawPerf' = p
    /\ stage' = "created"
    /\ lastOp' = [op |-> "createFundModel", type |-> ""]
    /\ result' = validateFundModel(fund')
    /\ UNCHANGED <<wizard, now, call>>

UpdateAssetAllocation ==
    /\ fund # NULL
    /\ \E d \in AllocInputs :
          /\ fund' = updateFundModel(fund, "asset_allocation", d, now)
          /\ rawAlloc' = d
    /\ stage' = IF stage = "empty" THEN "empty+allocation" ELSE "updated"
    /\ lastOp' = [op |-> "updateFundModel", type |-> "asset_allocation"]
    /\ result' = validateFundModel(fund')
    /\ UNCHANGED <<wizard, now, rawPerf, call>>

UpdatePerformance ==
    /\ fund # NULL
    /\ \E d \in PerfInputs :
          /\ fund' = updateFundModel(fund, "performance", d, now)
          /\ rawPerf' = d
    /\ stage' = IF stage = "empty+allocation"
                THEN "empty+allocation+performance" ELSE "updated"
    /\ lastOp' = [op |-> "updateFundModel", type |-> "performance"]
    /\ result' = validateFundModel(fund')
    /\ UNCHANGED <<wizard, now, rawAlloc, call>>

\* A report type updateFundModel does not know: no slot is replaced.
UpdateOther ==
    /\ fund # NULL
    /\ \E d \in {AllocationReportWithHoldings, PerformanceReportWithoutTwr} :
          fund' = updateFundModel(fund, "holdings", d, now)
    /\ stage' = "updated"
    /\ lastOp' = [op |-> "updateFundModel", type |-> "holdings"]
    /\ result' = validateFundModel(fund')
    /\ UNCHANGED <<wizard, now, rawAlloc, rawPerf, call>>

Next ==
    \/ ClockTick
    \/ CreateEmpty
    \/ Create
    \/ UpdateAssetAllocation
    \/ UpdatePerformance
    \/ UpdateOther

Spec == Init /\ [][Next]_vars

-----------------------------------------------------------------------------
(* The engine's functions, each applied to bounded arguments: a behaviour   *)
(* starts with one call and its arguments, and the call then returns.        *)

\* Names of the asset classes given to classifyFund: a growth class, a
\* defensive class, one that is neither, and a second growth class.
ClassNames ==
    <<"Australian Equities", "Cash", "Other", "International Equities",
      "Australian Fixed Interest">>

RECURSIVE ClassList(_, _)
ClassList(choice, i) ==
    IF i > MaxClasses THEN <<>>
    ELSE IF choice[i].present
         THEN <<[name |-> Str(ClassNames[i]), value |-> choice[i].value]>>
                \o ClassList(choice, i + 1)
         ELSE ClassList(choice, i + 1)

\* What classifyFund is called with: lists, and values that are not lists.
\* A list is a choice, for each of the first MaxClasses names, of leaving it
\* out or of its value; the values of one asset class are a small range
\* around 0, two values whose shares (62/207 = 29.95%, 145/207 = 70.05%)
\* round onto the classification thresholds, and null.
ClassifyInputs ==
    {Arr(ClassList(c, 1)) :
        c \in [1..MaxClasses ->
                  {[present |-> FALSE]}
                    \cup {[present |-> TRUE, value |-> v] :
                             v \in {Num(n) : n \in (-MaxValue..MaxValue) \cup {62, 145}}
                                     \cup {NULL}}]}
      \cup {NULL, UNDEFINED, Str("Cash"), [length |-> Num(2)]}

\* Fund returns given to compareToBenchmark: around each status threshold of
\* the balanced one-year benchmark (8.5), and absent ones.
FundReturns ==
    {Num(850 + d) : d \in {-201, -200, -51, -50, 0, 49, 50, 199, 200, 445}}
      \cup {NULL}

FundPerformances ==
    {NULL}
      \cup {[oneYear |-> y, threeYears |-> t, sinceStart |-> s] :
                y \in FundReturns, t \in {NULL, Num(700)}, s \in {NULL, Num(450)}}
      \cup {[threeYears |-> Num(700)]}

\* Benchmarks given to compareToBenchmark: the three of BENCHMARKS, one
\* without a one-year return, one whose one-year return is null, and one
\* without returns.
BenchmarkInputs ==
    {BENCHMARKS[k] : k \in DOMAIN BENCHMARKS}
      \cup {[name |-> Str("Custom"),
             returns |-> [threeYears |-> Num(680), sinceInception |-> Num(700)]],
            [name |-> Str("Custom"),
             returns |-> [oneYear |-> NULL, threeYears |-> Num(680),
                          sinceInception |-> NULL]],
            [name |-> Str("Custom")]}

\* Allocation reports with holdings given to analyzeFund: with and without
\* asset classes, and with a total that is positive, zero or null. The
\* holdings lists: an empty one, one holding of exactly 40% and one just above
\* 40% of a total of 1000, six equal holdings, six holdings whose five largest
\* are exactly 40% while all six are more, and none.
HoldingsInputs ==
    LET H(v) == [name |-> Str("BHP"), value |-> Num(v)]
    IN  {[totalValue |-> t, assetClasses |-> a, holdings |-> h] :
            t \in {NULL, Num(0), Num(1000)},
            a \in {Arr(<<>>),
                   Arr(<<[name |-> Str("Australian Equities"), value |-> Num(1000)]>>)},
            h \in {Arr(<<>>), Arr(<<H(400)>>), Arr(<<H(401)>>),
                   Arr(<<H(100), H(100), H(100), H(100), H(100), H(100)>>),
                   Arr(<<H(50), H(50), H(200), H(50), H(50), H(50)>>)}}
          \cup {[totalValue |-> Num(1000), assetClasses |-> Arr(<<>>)]}

\* Performance reports given to calculatePerformanceScore: their one-year
\* returns lie on and beside each band threshold (0, 4, 8, 15), at 20, or are
\* absent.
ScorePerformances ==
    {NULL, UNDEFINED, [dollarReturn |-> Num(5)]}
      \cup {[twr |-> [oneYear |-> y]] :
                y \in {Num(v) : v \in {-1, 0, 399, 400, 799, 800, 1499, 1500, 2000}}
                        \cup {NULL, UNDEFINED}}

\* Comparisons given to calculatePerformanceScore: their one-year
\* differences lie inside and beyond the clamp at 5 percentage points, and on
\* halves of a score point.
ScoreComparisons ==
    {NULL, UNDEFINED, NoComparisons}
      \cup {[oneYear |-> [difference |-> Num(d), status |-> getPerformanceStatus(d)],
              threeYears |-> NULL, sinceInception |-> NULL] :
                d \in {-MaxDiff - 400, -500, -300, -30, -10, 0, 10, 30, 300, 445,
                       500, MaxDiff + 400}}

\* The calls examined: the function and its arguments. getBenchmark is
\* given the four classification tags, strings that are no tag (one of them
\* the name of a property every object inherits), and values that are not
\* strings.
EngineCalls ==
    {[fn |-> "classifyFund", args |-> <<a>>] : a \in ClassifyInputs}
      \cup {[fn |-> "compareToBenchmark", args |-> <<f, b>>] :
                f \in FundPerformances, b \in BenchmarkInputs}
      \cup {[fn |-> "getPerformanceStatus", args |-> <<Num(d)>>] :
                d \in -MaxDiff..MaxDiff}
      \cup {[fn |-> "analyzeFund", args |-> <<a, p>>] :
                a \in AllocInputs \cup HoldingsInputs \cup {NULL, UNDEFINED},
                \* among them performance reports whose one-year return lies
                \* around each status threshold of the balanced benchmark
                p \in PerfInputs
                       \cup {PerformanceReport(y, NULL, NULL, NULL) : y \in FundReturns}
                       \cup {NULL, UNDEFINED}}
      \cup {[fn |-> "calculatePerformanceScore", args |-> <<p, c>>] :
                p \in ScorePerformances, c \in ScoreComparisons}
      \cup {[fn |-> "getBenchmark", args |-> <<t>>] :
                t \in {Str(n) : n \in {"defensive", "balanced", "growth", "unknown",
                                       "aggressive", "Balanced", "", "constructor"}}
                        \cup {NULL, UNDEFINED, Num(1),
                              [classification |-> Str("growth")]}}

\* The call has not returned yet.
PENDING == [type |-> "pending"]

InitEngine ==
    /\ fund = NULL
    /\ now = 0
    /\ stage = "none"
    /\ rawAlloc = NULL
    /\ rawPerf = NULL
    /\ lastOp = [op |-> "none", type |-> ""]
    /\ call \in EngineCalls
    /\ result = PENDING
    /\ wizard = NULL

CallClassifyFund ==
    /\ call.fn = "classifyFund"
    /\ result = PENDING
    /\ result' = classifyFund(call.args[1])
    /\ UNCHANGED <<wizard, fund, now, stage, rawAlloc, rawPerf, lastOp, call>>

CallCompareToBenchmark ==
    /\ call.fn = "compareToBenchmark"
    /\ result = PENDING
    /\ result' = compareToBenchmark(call.args[1], call.args[2])
    /\ UNCHANGED <<wizard, fund, now, stage, rawAlloc, rawPerf, lastOp, call>>

CallGetPerformanceStatus ==
    /\ call.fn = "getPerformanceStatus"
    /\ result = PENDING
    /\ result' = [status |-> getPerformanceStatus(call.args[1].val)]
    /\ UNCHANGED <<wizard, fund, now, stage, rawAlloc, rawPerf, lastOp, call>>

CallAnalyzeFund ==
    /\ call.fn = "analyzeFund"
    /\ result = PENDING
    /\ result' = analyzeFund(call.args[1], call.args[2])
    /\ UNCHANGED <<wizard, fund, now, stage, rawAlloc, rawPerf, lastOp, call>>

CallCalculatePerformanceScore ==
    /\ call.fn = "calculatePerformanceScore"
    /\ result = PENDING
    /\ result' = [score |-> calculatePerformanceScore(call.args[1], call.args[2])]
    /\ UNCHANGED <<wizard, fund, now, stage, rawAlloc, rawPerf, lastOp, call>>

CallGetBenchmark ==
    /\ call.fn = "getBenchmark"
    /\ result = PENDING
    /\ result' = [benchmark |-> getBenchmark(call.args[1])]
    /\ UNCHANGED <<wizard, fund, now, stage, rawAlloc, rawPerf, lastOp, call>>

NextEngine ==
    \/ CallClassifyFund
    \/ CallCompareToBenchmark
    \/ CallGetPerformanceStatus
    \/ CallAnalyzeFund
    \/ CallCalculatePerformanceScore
    \/ CallGetBenchmark

SpecEngine == InitEngine /\ [][NextEngine]_vars

-----------------------------------------------------------------------------
(* Strings: what the parsers use of String.prototype and of regular          *)
(* expressions, on the text of a report.                                     *)

UPPER_TO_LOWER ==
    "A" :> "a" @@ "B" :> "b" @@ "C" :> "c" @@ "D" :> "d" @@ "E"
        :> "e" @@ "F" :> "f" @@ "G" :> "g" @@ "H" :> "h" @@ "I" :>
        "i" @@ "J" :> "j" @@ "K" :> "k" @@ "L" :> "l" @@ "M" :> "m"
        @@ "N" :> "n" @@ "O" :> "o" @@ "P" :> "p" @@ "Q" :> "q" @@
        "R" :> "r" @@ "S" :> "s" @@ "T" :> "t" @@ "U" :> "u" @@ "V"
        :> "v" @@ "W" :> "w" @@ "X" :> "x" @@ "Y" :> "y" @@ "Z" :>
        "z"

\* The character at position i, "" outside the string.
CharAt(s, i) == IF i >= 1 /\ i <= Len(s) THEN SubSeq(s, i, i) ELSE ""

\* String.prototype.toLowerCase
RECURSIVE toLowerCase(_)
toLowerCase(s) ==
    IF Len(s) = 0 THEN ""
    ELSE IF Len(s) = 1
    THEN IF s \in DOMAIN UPPER_TO_LOWER THEN UPPER_TO_LOWER[s] ELSE s
    ELSE LET half == Len(s) \div 2
         IN  toLowerCase(SubSeq(s, 1, half))
               \o toLowerCase(SubSeq(s, half + 1, Len(s)))

\* String.prototype.includes
includes(s, part) ==
    \E i \in 1..(Len(s) - Len(part) + 1) : SubSeq(s, i, i + Len(part) - 1) = part

\* String.prototype.startsWith
startsWith(s, prefix) ==
    Len(prefix) <= Len(s) /\ SubSeq(s, 1, Len(prefix)) = prefix

\* \s and \d of a regular expression
SPACES == {" ", "\t", "\n"}
DIGITS == {"0", "1", "2", "3", "4", "5", "6", "7", "8", "9"}
\* The end of the longest run of characters of a class that starts at
\* position i (i - 1 when the run is empty): a greedy [class]* from i.
RECURSIVE RunEnd(_, _, _)
RunEnd(s, i, class) ==
    IF i <= Len(s) /\ CharAt(s, i) \in class THEN RunEnd(s, i + 1, class)
    ELSE i - 1

\* The start of the longest run of characters of a class that ends at
\* position i (i + 1 when the run is empty).
RECURSIVE RunStart(_, _, _)
RunStart(s, i, class) ==
    IF i >= 1 /\ CharAt(s, i) \in class THEN RunStart(s, i - 1, class)
    ELSE i + 1

\* String.prototype.trim
trim(s) ==
    LET first == RunEnd(s, 1, SPACES) + 1
        last == RunStart(s, Len(s), SPACES) - 1
    IN  IF first > last THEN "" ELSE SubSeq(s, first, last)

\* s with every character of a class removed (replace(/[class]/g, '')).
RECURSIVE Without(_, _)
Without(s, class) ==
    IF Len(s) = 0 THEN ""
    ELSE IF Len(s) = 1 THEN IF s \in class THEN "" ELSE s
    ELSE LET half == Len(s) \div 2
         IN  Without(SubSeq(s, 1, half), class)
               \o Without(SubSeq(s, half + 1, Len(s)), class)

\* parseFloat on a trimmed string: the number the longest numeric prefix
\* (sign, digits, decimal point, exponent) denotes, as numerator and
\* denominator; [inf |-> sign] for the literal 'Infinity' and for a decimal
\* beyond the range of a double; null for NaN (no digit in the prefix).
parseFloat(s) ==
    LET RECURSIVE Power10(_)
        Power10(k) == IF k = 0 THEN 1 ELSE 10 * Power10(k - 1)
        DigitValue(c) ==
            CASE c = "0" -> 0 [] c = "1" -> 1 [] c = "2" -> 2 [] c = "3" -> 3
              [] c = "4" -> 4 [] c = "5" -> 5 [] c = "6" -> 6 [] c = "7" -> 7
              [] c = "8" -> 8 [] c = "9" -> 9
        \* The integer a run of digits denotes (0 for the empty run).
        RECURSIVE DigitsValue(_)
        DigitsValue(d) ==
            IF Len(d) = 0 THEN 0
            ELSE 10 * DigitsValue(SubSeq(d, 1, Len(d) - 1))
                   + DigitValue(CharAt(d, Len(d)))
        negative == Len(s) > 0 /\ CharAt(s, 1) = "-"
        from == IF Len(s) > 0 /\ CharAt(s, 1) \in {"-", "+"} THEN 2 ELSE 1
        intEnd == RunEnd(s, from, DIGITS)
        hasPoint == intEnd + 1 <= Len(s) /\ CharAt(s, intEnd + 1) = "."
        fracEnd == IF hasPoint THEN RunEnd(s, intEnd + 2, DIGITS) ELSE intEnd
        intDigits == SubSeq(s, from, intEnd)
        fracDigits == IF hasPoint THEN SubSeq(s, intEnd + 2, fracEnd) ELSE ""
        magnitude == DigitsValue(intDigits \o fracDigits)
        signed(n) == IF negative THEN -n ELSE n
        \* The exponent part at position e: 'e' or 'E', an optional sign, at
        \* least one digit (a value of 0 when there is none).
        ExponentDigits(k) == DigitsValue(SubSeq(s, k, RunEnd(s, k, DIGITS)))
        Exponent(e) ==
            IF e <= Len(s) /\ CharAt(s, e) \in {"e", "E"}
            THEN IF e + 1 <= Len(s) /\ CharAt(s, e + 1) \in {"-", "+"}
                 THEN [negative |-> CharAt(s, e + 1) = "-",
                       value |-> ExponentDigits(e + 2)]
                 ELSE [negative |-> FALSE, value |-> ExponentDigits(e + 1)]
            ELSE [negative |-> FALSE, value |-> 0]
        \* The mantissa m of fracLen decimals scaled by the exponent.
        Scaled(m, fracLen, exponent) ==
            IF exponent.value = 0 \/ m = 0
            THEN [num |-> signed(m), den |-> Power10(fracLen)]
            ELSE IF exponent.negative
            THEN [num |-> signed(m), den |-> Power10(fracLen + exponent.value)]
            ELSE IF exponent.value > 308 THEN [inf |-> signed(1)]
            ELSE [num |-> signed(m) * Power10(exponent.value),
                  den |-> Power10(fracLen)]
    IN  IF Len(s) >= from + 7 /\ SubSeq(s, from, from + 7) = "Infinity"
        THEN [inf |-> signed(1)]
        ELSE IF Len(intDigits) + Len(fracDigits) = 0 THEN NULL
        ELSE Scaled(magnitude, Len(fracDigits), Exponent(fracEnd + 1))

-----------------------------------------------------------------------------
(* utils/formatters.js *)

\* parseDate on a matched date: the ISO day `new Date(value)` denotes on the
\* host, which the model keeps as the text it is made from.
parseDate(value) ==
    IF value = "" THEN NULL ELSE [type |-> "date", raw |-> trim(value)]

\* What a call leaves when it raises instead of returning.
Thrown(name) == [thrown |-> name]

\* parseCurrency on a value of any kind: null, undefined, a number (an
\* integer, or NaN as [type |-> "number", nan |-> TRUE]), a string, or an
\* object. A number whose magnitude is infinite is [type |-> "number",
\* inf |-> sign].
parseCurrency(value) ==
    LET \* replace(/\((.*?)\)/, "-$1"): the first parenthesized part loses
        \* its parentheses and gets a minus sign.
        ReplaceParentheses(t) ==
            LET opens == {i \in 1..Len(t) :
                             /\ CharAt(t, i) = "("
                             /\ \E j \in (i + 1)..Len(t) : CharAt(t, j) = ")"}
            IN  IF opens = {} THEN t
                ELSE LET i == CHOOSE i \in opens : \A k \in opens : i <= k
                         j == CHOOSE j \in (i + 1)..Len(t) :
                                  /\ CharAt(t, j) = ")"
                                  /\ \A k \in (i + 1)..(j - 1) : CharAt(t, k) # ")"
                     IN  SubSeq(t, 1, i - 1) \o "-" \o SubSeq(t, i + 1, j - 1)
                           \o SubSeq(t, j + 1, Len(t))
        \* Number.prototype.toString on an integer.
        RECURSIVE DigitsOf(_)
        DigitsOf(n) ==
            IF n < 10 THEN SubSeq("0123456789", n + 1, n + 1)
            ELSE DigitsOf(n \div 10) \o SubSeq("0123456789", (n % 10) + 1, (n % 10) + 1)
        \* !value
        falsy == IF IsTagged(value)
                 THEN \/ IsNullish(value)
                      \/ IsString(value) /\ value.str = ""
                      \/ IsNumber(value) /\ "nan" \in DOMAIN value
                      \/ IsNumber(value) /\ "val" \in DOMAIN value /\ value.val = 0
                 ELSE FALSE
        \* value.toString(), for the values that have one to call.
        text == IF IsObject(value) THEN "[object Object]"
                ELSE IF IsString(value) THEN value.str
                ELSE IF "inf" \in DOMAIN value
                THEN IF value.inf < 0 THEN "-Infinity" ELSE "Infinity"
                ELSE IF value.val < 0 THEN "-" \o DigitsOf(-value.val)
                ELSE DigitsOf(value.val)
        Cleaned(t) == trim(ReplaceParentheses(Without(t, {"$", ","})))
        Number(number) ==
            IF number = NULL THEN NULL
            ELSE IF "inf" \in DOMAIN number
            THEN [type |-> "number", inf |-> number.inf]
            ELSE Quot(number.num, number.den)
    IN  IF falsy THEN NULL
        \* An own property named toString that is not a function shadows
        \* Object.prototype.toString, and calling it is a TypeError.
        ELSE IF IsObject(value) /\ "toString" \in DOMAIN value
        THEN Thrown("TypeError")
        ELSE Number(parseFloat(Cleaned(text)))

-----------------------------------------------------------------------------
(* parsers/assetAllocationParser.js on the text of a report *)

\* The first page and line, in order, whose lower-cased text starts with
\* 'total'; null when there is none.
findTotalRow(pages) ==
    LET found == {pl \in UNION {{<<p, l>> : l \in 1..Len(pages[p].lines)} :
                                   p \in 1..Len(pages)} :
                     startsWith(toLowerCase(pages[pl[1]].lines[pl[2]]), "total")}
    IN  IF found = {} THEN NULL
        ELSE LET first == CHOOSE f \in found :
                              \A g \in found :
                                  f[1] < g[1] \/ (f[1] = g[1] /\ f[2] <= g[2])
             IN  Str(pages[first[1]].lines[first[2]])

\* line.match(/\$?[0-9,]+\.\d{2}/g) from position i on: the dollar tokens,
\* left to right.
RECURSIVE DollarTokens(_, _)
DollarTokens(line, i) ==
    IF i > Len(line) THEN <<>>
    ELSE
      LET from == IF CharAt(line, i) = "$" THEN i + 1 ELSE i
          e == RunEnd(line, from, DIGITS \cup {","})
      IN  IF /\ e >= from
             /\ CharAt(line, e + 1) = "."
             /\ CharAt(line, e + 2) \in DIGITS
             /\ CharAt(line, e + 3) \in DIGITS
          THEN <<SubSeq(line, i, e + 3)>> \o DollarTokens(line, e + 4)
          ELSE DollarTokens(line, i + 1)

\* line.match(/\d+\.?\d*%/g) from position i on: the percent tokens, left
\* to right.
RECURSIVE PercentTokens(_, _)
PercentTokens(line, i) ==
    IF i > Len(line) THEN <<>>
    ELSE
      LET e == RunEnd(line, i, DIGITS)
          f == RunEnd(line, e + 2, DIGITS)
      IN  IF e >= i /\ CharAt(line, e + 1) = "%"
          THEN <<SubSeq(line, i, e + 1)>> \o PercentTokens(line, e + 2)
          ELSE IF e >= i /\ CharAt(line, e + 1) = "." /\ CharAt(line, f + 1) = "%"
          THEN <<SubSeq(line, i, f + 1)>> \o PercentTokens(line, f + 2)
          ELSE PercentTokens(line, i + 1)

\* parseTotalRow without the test that a column has a value or a percentage:
\* an entry for each of the columns.
parseTotalRowEveryColumn(line) ==
    [i \in 1..Len(ASSET_CLASS_COLUMNS) |->
        [name |-> Str(ASSET_CLASS_COLUMNS[i]),
         value |-> IF i <= Len(DollarTokens(line, 1))
                   THEN parseCurrency(Str(DollarTokens(line, 1)[i])) ELSE NULL,
         percent |-> IF i <= Len(PercentTokens(line, 1))
                     THEN Num(100 * parseFloat(PercentTokens(line, 1)[i]).num)
                     ELSE NULL,
         source |-> Str("total_row")]]

parseTotalRow(line) ==
    LET values == DollarTokens(line, 1)
        percents == PercentTokens(line, 1)
        \* Number(token.replace('%', '')) of a percent token, in hundredths
        \* of a percent.
        PercentNumber(token) ==
            Quot(100 * parseFloat(Without(token, {"%"})).num,
                 parseFloat(Without(token, {"%"})).den)
        \* The loop over the columns from column i on.
        RECURSIVE TotalRowEntries(_)
        TotalRowEntries(i) ==
            IF i > Len(ASSET_CLASS_COLUMNS) THEN <<>>
            ELSE
              LET value == IF i <= Len(values) THEN parseCurrency(Str(values[i]))
                           ELSE NULL
                  percent == IF i <= Len(percents) THEN PercentNumber(percents[i])
                             ELSE NULL
                  rest == TotalRowEntries(i + 1)
              IN  IF value # NULL \/ percent # NULL
                  THEN <<[name |-> Str(ASSET_CLASS_COLUMNS[i]), value |-> value,
                          percent |-> percent, source |-> Str("total_row")]>>
                         \o rest
                  ELSE rest
    IN  TotalRowEntries(1)

\* A literal word followed by \s+, matched at position i of a lower-cased
\* text: the position after the spaces, 0 when there is no match.
LiteralThenSpaces(lower, i, word) ==
    LET e == i + Len(word) - 1
        sp == RunEnd(lower, e + 1, SPACES)
    IN  IF i >= 1 /\ e <= Len(lower) /\ SubSeq(lower, i, e) = word /\ sp > e
        THEN sp + 1 ELSE 0

\* \d{4} from position i: the position of the last digit, 0 when no match.
FourDigitsEnd(lower, i) ==
    IF i >= 1 /\ \A n \in 0..3 : CharAt(lower, i + n) \in DIGITS THEN i + 3 ELSE 0

\* A date at position i of a lower-cased text, \d{1,2}\s+\w+\s+\d{4} or,
\* with slashes, \d{1,2}\/\d{1,2}\/\d{4}: the position of its last
\* character, 0 when there is no match.
DateEnd(lower, i, slashes) ==
    LET UPPER == DOMAIN UPPER_TO_LOWER
        WORD_CHARS == DIGITS \cup {"_"} \cup UPPER \cup {UPPER_TO_LOWER[c] : c \in UPPER}
        dayEnd == IF CharAt(lower, i + 1) \in DIGITS THEN i + 1 ELSE i
        c == RunEnd(lower, dayEnd + 1, SPACES)
        w == RunEnd(lower, c + 1, WORD_CHARS)
        d == RunEnd(lower, w + 1, SPACES)
        LongDateEnd ==
            IF c > dayEnd /\ w > c /\ d > w THEN FourDigitsEnd(lower, d + 1) ELSE 0
        monthEnd == IF CharAt(lower, dayEnd + 3) \in DIGITS THEN dayEnd + 3
                    ELSE dayEnd + 2
        SlashDateEnd ==
            IF /\ CharAt(lower, dayEnd + 1) = "/"
               /\ CharAt(lower, dayEnd + 2) \in DIGITS
               /\ CharAt(lower, monthEnd + 1) = "/"
            THEN FourDigitsEnd(lower, monthEnd + 2) ELSE 0
    IN  IF i < 1 \/ CharAt(lower, i) \notin DIGITS THEN 0
        ELSE IF slashes THEN SlashDateEnd ELSE LongDateEnd

\* The least of a set of positions, 0 for the empty set.
FirstPosition(positions) ==
    IF positions = {} THEN 0
    ELSE CHOOSE i \in positions : \A k \in positions : i <= k

extractReportDate(text) ==
    LET lower == toLowerCase(text)
        DateBetween(from, e) == IF e = 0 THEN "" ELSE SubSeq(text, from, e)
        DateStarting(from, slashes) ==
            DateBetween(from, DateEnd(lower, from, slashes))
        \* /as\s+at\s+(date)/i tried at position i: the date matched, ""
        \* when the pattern does not match here.
        AsAtDateAt(i, slashes) ==
            DateStarting(
                LiteralThenSpaces(lower, LiteralThenSpaces(lower, i, "as"), "at"),
                slashes)
        \* The first match of one of the two patterns, "" when it matches
        \* nowhere.
        FirstAsAtDate(slashes) ==
            AsAtDateAt(FirstPosition({i \in 1..Len(text) :
                                         AsAtDateAt(i, slashes) # ""}),
                       slashes)
        \* The date of the first pattern that matched.
        FirstMatchedDate(match, slashMatch) ==
            IF match # "" THEN parseDate(match)
            ELSE IF slashMatch # "" THEN parseDate(slashMatch)
            ELSE NULL
    IN  FirstMatchedDate(FirstAsAtDate(FALSE), FirstAsAtDate(TRUE))

parseAssetAllocationReport(fullText, pages) ==
    LET \* The report returned when a TOTAL row is found.
        TotalRowReport(asAtDate, assetClasses) ==
            [reportType |-> Str("asset_allocation"),
             asAtDate |-> asAtDate,
             totalValue |-> Num(SumValues(assetClasses)),
             assetClasses |-> Arr(assetClasses),
             holdings |-> Arr(<<>>),
             holdingsCount |-> Num(0)]
        ReportOf(asAtDate, totalRow) ==
            IF totalRow = NULL THEN AllocationReportWithoutTotalRow(asAtDate)
            ELSE TotalRowReport(asAtDate, parseTotalRow(totalRow.str))
    IN  ReportOf(extractReportDate(fullText), findTotalRow(pages))

-----------------------------------------------------------------------------
(* parsers/performanceReportParser.js on the text of a report *)

\* parsePercentage on a string, in hundredths of a percent: the first '%'
\* removed, trimmed, parseFloat, null for NaN.
parsePercentage(value) ==
    IF value = "" THEN NULL
    ELSE LET at == {i \in 1..Len(value) : CharAt(value, i) = "%"}
             cleaned ==
                 IF at = {} THEN value
                 ELSE LET i == CHOOSE i \in at : \A k \in at : i <= k
                      IN  SubSeq(value, 1, i - 1) \o SubSeq(value, i + 1, Len(value))
             number == parseFloat(trim(cleaned))
         IN  IF number = NULL THEN NULL
             ELSE IF "inf" \in DOMAIN number
             THEN [type |-> "number", inf |-> number.inf]
             ELSE Quot(100 * number.num, number.den)

extractPeriodDates(text) ==
    LET lower == toLowerCase(text)
        \* The position of the first date of a period pattern tried at
        \* position i (after 'for the period from', or 'period from' for the
        \* pattern with slashes), 0 when the words do not match here.
        PeriodFromAt(i, slashes) ==
            LiteralThenSpaces(lower,
                IF slashes THEN LiteralThenSpaces(lower, i, "period")
                ELSE LiteralThenSpaces(lower,
                         LiteralThenSpaces(lower,
                             LiteralThenSpaces(lower, i, "for"), "the"), "period"),
                "from")
        \* The position of the second date, after the first date ending at
        \* fromEnd, \s+, 'to' and \s+; 0 when there is no match.
        PeriodToAt(fromEnd) ==
            IF fromEnd = 0 \/ CharAt(lower, fromEnd + 1) \notin SPACES THEN 0
            ELSE LiteralThenSpaces(lower, RunEnd(lower, fromEnd + 1, SPACES) + 1, "to")
        \* The two dates between the positions matched, <<>> when one is
        \* missing.
        PeriodDatesBetween(from, fromEnd, to, toEnd) ==
            IF fromEnd = 0 \/ toEnd = 0 THEN <<>>
            ELSE <<SubSeq(text, from, fromEnd), SubSeq(text, to, toEnd)>>
        PeriodDatesTo(slashes, from, fromEnd, to) ==
            PeriodDatesBetween(from, fromEnd, to, DateEnd(lower, to, slashes))
        PeriodDatesFrom(slashes, from, fromEnd) ==
            PeriodDatesTo(slashes, from, fromEnd, PeriodToAt(fromEnd))
        PeriodDatesStarting(slashes, from) ==
            PeriodDatesFrom(slashes, from, DateEnd(lower, from, slashes))
        \* One of the two patterns tried at position i: the two dates
        \* matched, <<>> when the pattern does not match here.
        PeriodDatesAt(i, slashes) ==
            IF i = 0 THEN <<>>
            ELSE PeriodDatesStarting(slashes, PeriodFromAt(i, slashes))
        \* The first match of a pattern in the text, <<>> when it matches
        \* nowhere.
        FirstPeriodDates(slashes) ==
            PeriodDatesAt(FirstPosition({i \in 1..Len(text) :
                                            PeriodDatesAt(i, slashes) # <<>>}),
                          slashes)
        PeriodOf(m) ==
            [from |-> parseDate(m[1]), to |-> parseDate(m[2]),
             rawFrom |-> Str(m[1]), rawTo |-> Str(m[2])]
        \* The period of the first pattern that matched.
        FirstMatchedPeriod(match, slashMatch) ==
            IF match # <<>> THEN PeriodOf(match)
            ELSE IF slashMatch # <<>> THEN PeriodOf(slashMatch)
            ELSE [from |-> NULL, to |-> NULL]
    IN  FirstMatchedPeriod(FirstPeriodDates(FALSE), FirstPeriodDates(TRUE))

\* The value a section line carries: parseCurrency of the currency token
\* the line ends in, null when it ends in none
\* (line.match(/([0-9,]+\.[0-9]{2}|\([0-9,]+\.[0-9]{2}\))\s*$/)).
LineValue(line) ==
    LET last == RunStart(line, Len(line), SPACES) - 1
        closing == CharAt(line, last) = ")"
        cents == IF closing THEN last - 1 ELSE last
        run == RunStart(line, cents - 3, DIGITS \cup {","})
        TrailingCurrencyToken ==
            IF /\ cents >= 4
               /\ CharAt(line, cents) \in DIGITS
               /\ CharAt(line, cents - 1) \in DIGITS
               /\ CharAt(line, cents - 2) = "."
               /\ run <= cents - 3
               /\ closing => CharAt(line, run - 1) = "("
            THEN SubSeq(line, IF closing THEN run - 1 ELSE run, last)
            ELSE ""
        TokenValue(token) == IF token = "" THEN NULL ELSE parseCurrency(Str(token))
    IN  TokenValue(TrailingCurrencyToken)

\* The label chain with a field that is set keeping its value: the first
\* line of a label wins.
SetFieldOnce(fields, label, value) ==
    IF value # NULL /\ label # "" /\ fields[label] = NULL
    THEN [fields EXCEPT ![label] = value] ELSE fields

\* One pass of the label chain of a section line: the field of the line's
\* label (the first label of the chain the line contains, "" for none) is
\* assigned the line's value when the line carries one.
SetField(fields, label, value) ==
    IF value # NULL /\ label # ""
    THEN [fields EXCEPT ![label] = value] ELSE fields

extractMovementInValue(lines) ==
    LET \* The section loop from line i on: the lines collected.
        RECURSIVE MovementSectionLines(_, _)
        MovementSectionLines(i, inSection) ==
            IF i > Len(lines) THEN <<>>
            ELSE
              LET lowerLine == toLowerCase(lines[i])
              IN  IF includes(lowerLine, "movement in value")
                     /\ ~includes(lowerLine, "portfolio")
                  THEN MovementSectionLines(i + 1, TRUE)
                  ELSE IF inSection
                          /\ (\/ includes(lowerLine, "portfolio value versus")
                              \/ includes(lowerLine, "portfolio return"))
                  THEN <<>>
                  ELSE (IF inSection THEN <<lines[i]>> ELSE <<>>)
                         \o MovementSectionLines(i + 1, inSection)
        \* lowerLine.match(/^movement\s+in\s+value/)
        StartsWithMovementInValue(lowerLine) ==
            LET value == LiteralThenSpaces(
                             lowerLine,
                             LiteralThenSpaces(lowerLine, 1, "movement"), "in")
            IN  /\ value # 0
                /\ startsWith(SubSeq(lowerLine, value, Len(lowerLine)), "value")
        \* The field the label chain selects for a line that carries a
        \* value, "" when no label matches.
        MovementLabel(lowerLine) ==
            IF includes(lowerLine, "starting market value")
            THEN "startingMarketValue"
            ELSE IF \/ includes(lowerLine, "net addition")
                    \/ includes(lowerLine, "net withdrawal")
            THEN "netAddition"
            ELSE IF includes(lowerLine, "realised") /\ includes(lowerLine, "gains")
            THEN "realisedGainsLosses"
            ELSE IF includes(lowerLine, "investment income") THEN "investmentIncome"
            ELSE IF includes(lowerLine, "other") THEN "other"
            ELSE IF includes(lowerLine, "ending market value")
            THEN "endingMarketValue"
            ELSE IF StartsWithMovementInValue(lowerLine) THEN "movementInValue"
            ELSE ""
        \* The label loop from section line i on.
        RECURSIVE MovementFields(_, _, _)
        MovementFields(fields, sectionLines, i) ==
            IF i > Len(sectionLines) THEN fields
            ELSE
              LET value == LineValue(sectionLines[i])
                  label == MovementLabel(toLowerCase(sectionLines[i]))
              IN  MovementFields(SetField(fields, label, value),
                                 sectionLines, i + 1)
    IN  MovementFields(
            [startingMarketValue |-> NULL, netAddition |-> NULL,
             realisedGainsLosses |-> NULL, investmentIncome |-> NULL,
             other |-> NULL, endingMarketValue |-> NULL,
             movementInValue |-> NULL],
            MovementSectionLines(1, FALSE), 1)

extractPortfolioReturn(lines) ==
    LET \* The section loop from line i on: the lines collected.
        RECURSIVE PortfolioSectionLines(_, _)
        PortfolioSectionLines(i, inSection) ==
            IF i > Len(lines) THEN <<>>
            ELSE
              LET lowerLine == toLowerCase(lines[i])
              IN  IF includes(lowerLine, "portfolio return")
                     /\ ~includes(lowerLine, "investment return")
                  THEN PortfolioSectionLines(i + 1, TRUE)
                  ELSE IF inSection
                          /\ (\/ includes(lowerLine, "return over time")
                              \/ includes(lowerLine, "1 year")
                              \/ includes(lowerLine,
                                          "investment return before expenses"))
                  THEN <<>>
                  ELSE (IF inSection THEN <<lines[i]>> ELSE <<>>)
                         \o PortfolioSectionLines(i + 1, inSection)
        \* The field the label chain selects for a line that carries a
        \* value, "" when no label matches.
        PortfolioLabel(lowerLine) ==
            IF includes(lowerLine, "realised") /\ includes(lowerLine, "gains")
            THEN "realisedGainsLosses"
            ELSE IF includes(lowerLine, "investment income") THEN "investmentIncome"
            ELSE IF includes(lowerLine, "credits") /\ ~includes(lowerLine, "excluding")
            THEN "credits"
            ELSE IF includes(lowerLine, "total dollar return before expenses")
            THEN "totalBeforeExpenses"
            ELSE IF includes(lowerLine, "investment expenses") THEN "expenses"
            ELSE IF includes(lowerLine, "total dollar return after expenses")
            THEN "totalAfterExpenses"
            ELSE ""
        \* The label loop from section line i on.
        RECURSIVE PortfolioFields(_, _, _)
        PortfolioFields(fields, sectionLines, i) ==
            IF i > Len(sectionLines) THEN fields
            ELSE
              LET value == LineValue(sectionLines[i])
                  label == PortfolioLabel(toLowerCase(sectionLines[i]))
              IN  PortfolioFields(SetField(fields, label, value),
                                  sectionLines, i + 1)
    IN  PortfolioFields(
            [realisedGainsLosses |-> NULL, investmentIncome |-> NULL,
             credits |-> NULL, totalBeforeExpenses |-> NULL, expenses |-> NULL,
             totalAfterExpenses |-> NULL],
            PortfolioSectionLines(1, FALSE), 1)

extractTWRValues(lines) ==
    LET \* The row loop from line i on: the header line seen last and the
        \* TWR row (null when none is found).
        RECURSIVE FindTwrRow(_, _)
        FindTwrRow(i, headerLine) ==
            IF i > Len(lines) THEN [headerLine |-> headerLine, twrLine |-> NULL]
            ELSE
              LET lowerLine == toLowerCase(lines[i])
              IN  IF includes(lowerLine, "1 year") \/ includes(lowerLine, "3 year")
                  THEN FindTwrRow(i + 1, Str(lines[i]))
                  ELSE IF includes(lowerLine, "investment return before expenses")
                          /\ includes(lowerLine, "twr")
                  THEN [headerLine |-> headerLine, twrLine |-> Str(lines[i])]
                  ELSE FindTwrRow(i + 1, headerLine)
        \* twrLine.match(/(-?\d+\.?\d*%|-)/g) from position i on: the tokens,
        \* left to right.
        RECURSIVE TwrTokens(_, _)
        TwrTokens(line, i) ==
            IF i > Len(line) THEN <<>>
            ELSE
              LET from == IF CharAt(line, i) = "-" THEN i + 1 ELSE i
                  e == RunEnd(line, from, DIGITS)
                  f == RunEnd(line, e + 2, DIGITS)
              IN  IF e >= from /\ CharAt(line, e + 1) = "%"
                  THEN <<SubSeq(line, i, e + 1)>> \o TwrTokens(line, e + 2)
                  ELSE IF /\ e >= from /\ CharAt(line, e + 1) = "."
                          /\ CharAt(line, f + 1) = "%"
                  THEN <<SubSeq(line, i, f + 1)>> \o TwrTokens(line, f + 2)
                  ELSE IF CharAt(line, i) = "-"
                  THEN <<"-">> \o TwrTokens(line, i + 1)
                  ELSE TwrTokens(line, i + 1)
        \* /since\s+(\d{2}\/\d{2}\/\d{4})/gi on the header line from position
        \* i on: the dates matched, left to right.
        RECURSIVE SinceDates(_, _, _)
        SinceDates(header, lower, i) ==
            IF i > Len(lower) THEN <<>>
            ELSE
              LET d == LiteralThenSpaces(lower, i, "since")
              IN  IF /\ d # 0
                     /\ CharAt(lower, d) \in DIGITS
                     /\ CharAt(lower, d + 1) \in DIGITS
                     /\ CharAt(lower, d + 2) = "/"
                     /\ CharAt(lower, d + 3) \in DIGITS
                     /\ CharAt(lower, d + 4) \in DIGITS
                     /\ CharAt(lower, d + 5) = "/"
                     /\ FourDigitsEnd(lower, d + 6) # 0
                  THEN <<SubSeq(header, d, d + 9)>>
                         \o SinceDates(header, lower, d + 10)
                  ELSE SinceDates(header, lower, i + 1)
        \* The loop over the header's 'Since' dates: the k-th date takes the
        \* token of index k + 1 (counted from 0) when there is one.
        RECURSIVE SinceDateEntries(_, _, _)
        SinceDateEntries(dates, percentages, k) ==
            IF k > Len(dates) THEN <<>>
            ELSE (IF k + 2 <= Len(percentages)
                  THEN <<[date |-> parseDate(dates[k]), rawDate |-> Str(dates[k]),
                          value |-> parsePercentage(percentages[k + 2])]>>
                  ELSE <<>>)
                   \o SinceDateEntries(dates, percentages, k + 1)
        Token(percentages, k) ==
            IF k <= Len(percentages) THEN parsePercentage(percentages[k])
            ELSE NULL
        \* The result for the header line and the tokens of the TWR row.
        TwrResult(headerLine, percentages) ==
            [oneYear |-> Token(percentages, 1),
             threeYears |-> Token(percentages, 2),
             sinceStart |-> Token(percentages, 3),
             sincePeriodStart |-> Token(percentages, 4),
             sinceDates |->
                 IF headerLine = NULL THEN Arr(<<>>)
                 ELSE Arr(SinceDateEntries(
                              SinceDates(headerLine.str,
                                         toLowerCase(headerLine.str), 1),
                              percentages, 1))]
        ResultOf(rows) ==
            IF rows.twrLine = NULL
            THEN [oneYear |-> NULL, threeYears |-> NULL, sinceStart |-> NULL,
                  sincePeriodStart |-> NULL, sinceDates |-> Arr(<<>>)]
            ELSE TwrResult(rows.headerLine, TwrTokens(rows.twrLine.str, 1))
    IN  ResultOf(FindTwrRow(1, NULL))

\* pages.flatMap(p => p.lines)
RECURSIVE AllLines(_)
AllLines(pages) ==
    IF pages = <<>> THEN <<>> ELSE Head(pages).lines \o AllLines(Tail(pages))

parsePerformanceReport(fullText, pages) ==
    LET \* The output structure.
        PerformanceResult(period, movementData, portfolioReturn, twr) ==
            [reportType |-> Str("performance"),
             period |-> period,
             startingMarketValue |-> movementData.startingMarketValue,
             endingMarketValue |-> movementData.endingMarketValue,
             movementInValue |-> movementData.movementInValue,
             dollarReturnBeforeExpenses |-> portfolioReturn.totalBeforeExpenses,
             dollarReturnAfterExpenses |-> portfolioReturn.totalAfterExpenses,
             investmentExpenses |-> portfolioReturn.expenses,
             twr |-> twr,
             details |-> [movementInValue |-> movementData,
                          portfolioReturn |-> portfolioReturn]]
        ParsedLines(allLines) ==
            PerformanceResult(extractPeriodDates(fullText),
                              extractMovementInValue(allLines),
                              extractPortfolioReturn(allLines),
                              extractTWRValues(allLines))
    IN  ParsedLines(AllLines(pages))

-----------------------------------------------------------------------------
(* parsers/reportRegistry.js *)

\* utils/constants.js
REPORT_FINGERPRINTS ==
    [ASSET_ALLOCATION |->
         <<"investment allocation", "asset allocation", "allocation as at",
           "current allocation", "australian equities",
           "international equities", "fixed interest", "listed property",
           "cash">>,
     PERFORMANCE |->
         <<"investment movement", "movement and returns", "time weighted",
           "time weighted return", "twr", "opening balance",
           "closing balance", "net return">>]

\* The registry, in the order Object.entries gives its entries.
REPORT_PARSERS ==
    <<[type |-> "performance",
       name |-> "Investment Movement and Returns Report",
       fingerprints |-> REPORT_FINGERPRINTS.PERFORMANCE,
       minMatchCount |-> 1],
      [type |-> "asset_allocation",
       name |-> "Investment Allocation Report",
       fingerprints |-> REPORT_FINGERPRINTS.ASSET_ALLOCATION,
       minMatchCount |-> 1]>>

\* config.fingerprints.filter(fp => normalizedText.includes(fp.toLowerCase())).length
MatchCount(normalizedText, fingerprints) ==
    Cardinality({i \in 1..Len(fingerprints) :
                    includes(normalizedText, toLowerCase(fingerprints[i]))})

\* confidence > bestScore, both exact quotients
GreaterThan(a, b) ==
    LET aden == IF "den" \in DOMAIN a THEN a.den ELSE 1
        bden == IF "den" \in DOMAIN b THEN b.den ELSE 1
    IN  a.val * bden > b.val * aden

\* identifyReportType that lets a later type of equal confidence win.
RECURSIVE BestMatchLast(_, _, _, _)
BestMatchLast(normalizedText, i, bestMatch, bestScore) ==
    IF i > Len(REPORT_PARSERS) THEN bestMatch
    ELSE
      LET config == REPORT_PARSERS[i]
          matchCount == MatchCount(normalizedText, config.fingerprints)
          confidence == Quot(100 * matchCount, Len(config.fingerprints))
      IN  IF matchCount >= config.minMatchCount /\ ~GreaterThan(bestScore, confidence)
          THEN BestMatchLast(normalizedText, i + 1,
                             [type |-> Str(config.type),
                              confidence |-> confidence,
                              name |-> Str(config.name),
                              matchCount |-> Num(matchCount),
                              totalFingerprints |-> Num(Len(config.fingerprints))],
                             confidence)
          ELSE BestMatchLast(normalizedText, i + 1, bestMatch, bestScore)

\* The loop of identifyReportType from registry entry i on.
RECURSIVE BestMatch(_, _, _, _)
BestMatch(normalizedText, i, bestMatch, bestScore) ==
    IF i > Len(REPORT_PARSERS) THEN bestMatch
    ELSE
      LET config == REPORT_PARSERS[i]
          matchCount == MatchCount(normalizedText, config.fingerprints)
          confidence == Quot(100 * matchCount, Len(config.fingerprints))
      IN  IF matchCount >= config.minMatchCount /\ GreaterThan(confidence, bestScore)
          THEN BestMatch(normalizedText, i + 1,
                         [type |-> Str(config.type),
                          confidence |-> confidence,
                          name |-> Str(config.name),
                          matchCount |-> Num(matchCount),
                          totalFingerprints |-> Num(Len(config.fingerprints))],
                         confidence)
          ELSE BestMatch(normalizedText, i + 1, bestMatch, bestScore)

identifyReportTypeLastWins(text) == BestMatchLast(toLowerCase(text), 1, NULL, Num(0))

identifyReportType(text) == BestMatch(toLowerCase(text), 1, NULL, Num(0))

\* What parseReport's promise settles to: rejected with an error and the
\* parsers it invoked, or fulfilled with its value and the parsers it
\* invoked.
Rejected(message) == [settled |-> "rejected", error |-> message, parsers |-> <<>>]
Fulfilled(value, type) == [settled |-> "fulfilled", value |-> value, parsers |-> <<type>>]

\* parserConfig.parser(fullText, pages) for the type identified.
ParsedData(type, extractedPdf) ==
    IF type = Str("performance")
    THEN parsePerformanceReport(extractedPdf.fullText, extractedPdf.pages)
    ELSE parseAssetAllocationReport(extractedPdf.fullText, extractedPdf.pages)

\* parseReport from the identification on.
ParseIdentified(identification, extractedPdf) ==
    IF identification = NULL
    THEN Rejected("Could not identify report type. Please ensure this is a supported CLASS Super report (Investment Allocation or Movement and Returns).")
    ELSE Fulfilled([reportType |-> identification.type,
                    reportName |-> identification.name,
                    confidence |-> identification.confidence,
                    data |-> ParsedData(identification.type, extractedPdf)],
                   identification.type.str)

\* parseReport that answers an unidentified report with an empty result.
parseReportPartial(extractedPdf) ==
    [settled |-> "fulfilled",
     value |-> [reportType |-> NULL, reportName |-> NULL,
                confidence |-> Num(0), data |-> NULL],
     parsers |-> <<>>]

parseReport(extractedPdf) ==
    ParseIdentified(identifyReportType(extractedPdf.fullText), extractedPdf)

\* validateReport without the test of the holdings.
validateReportAssetClassesOnly(report, type) ==
    LET errors ==
            IF /\ type = "asset_allocation"
               /\ Get(report, "assetClasses") \in {UNDEFINED, NULL, Arr(<<>>)}
            THEN <<"No asset classes found">> ELSE <<>>
    IN  [valid |-> errors = <<>>, errors |-> errors]

\* validateReport on a parsed report (an object) and a type name.
validateReport(report, type) ==
    LET \* !x
        Not(x) == IsTagged(x) /\ (IsNullish(x) \/ x = Str("") \/ x = Num(0))
        \* !x || x.length === 0
        MissingOrEmpty(x) == Not(x) \/ (IsTagged(x) /\ IsArray(x) /\ x.items = <<>>)
        errors ==
            (IF type = "performance"
                  /\ (\/ Not(Get(Get(report, "period"), "from"))
                      \/ Not(Get(Get(report, "period"), "to")))
             THEN <<"Missing report period dates">> ELSE <<>>)
            \o (IF type = "performance"
                     /\ IsNullish(Get(report, "dollarReturnAfterExpenses"))
                THEN <<"Missing total dollar return">> ELSE <<>>)
            \o (IF type = "asset_allocation"
                     /\ MissingOrEmpty(Get(report, "assetClasses"))
                THEN <<"No asset classes found">> ELSE <<>>)
            \o (IF type = "asset_allocation"
                     /\ MissingOrEmpty(Get(report, "holdings"))
                THEN <<"No holdings found">> ELSE <<>>)
    IN  [valid |-> errors = <<>>, errors |-> errors]

-----------------------------------------------------------------------------
(* The parsers as functions of a document's text: the state starts with one  *)
(* call and its arguments, and the call then returns.                        *)

\* All sequences of at most n elements of a set.
SeqsUpTo(S, n) == UNION {[1..k -> S] : k \in 0..n}

\* lines.join('\n')
RECURSIVE JoinLines(_)
JoinLines(lines) ==
    IF lines = <<>> THEN ""
    ELSE IF Len(lines) = 1 THEN lines[1]
    ELSE lines[1] \o "\n" \o JoinLines(Tail(lines))

\* What extractTextFromPDF returns for pages of the given lines: the text is
\* each page's lines joined, followed by an empty line, and trimmed at the
\* end.
ExtractedPdf(pageLines) ==
    LET pages == [p \in 1..Len(pageLines) |->
                     [pageNumber |-> Num(p), lines |-> pageLines[p],
                      rawText |-> JoinLines(pageLines[p])]]
        RECURSIVE PagesText(_)
        PagesText(p) ==
            IF p > Len(pageLines) THEN ""
            ELSE JoinLines(pageLines[p]) \o "\n\n" \o PagesText(p + 1)
    IN  [pages |-> pages, fullText |-> trim(PagesText(1)),
         numPages |-> Num(Len(pageLines))]

\* Lines of the texts given to identifyReportType: with one, two and three
\* allocation fingerprints, with none, with two and three performance
\* fingerprints, with one of each inside longer words, and with all of a
\* type's fingerprints.
IdentifyLines ==
    {"Investment Allocation Report",
     "Asset Allocation as at year end",
     "Australian Equities International Equities Cash",
     "CLASS Super",
     "Investment Movement and Returns Report",
     "Time Weighted Return (TWR)",
     "Cashflow outwrite",
     "Investment Allocation, Asset Allocation as at, Current Allocation, Australian Equities, International Equities, Fixed Interest, Listed Property, Cash",
     "Investment Movement and Returns, Time Weighted Return TWR, Opening Balance, Closing Balance, Net Return"}

\* Lines of allocation documents: a heading, TOTAL rows (with dollar and
\* percent tokens, indented, with percentages only, bare), and a row that
\* has 'total' inside it, and a TOTAL row with more tokens than there are
\* columns.  Dollar amounts are whole.
AllocationLines ==
    {"Investment Allocation as at year end",
     "Total 1% 2% 3% 4% 5% 6% 7% 8%",
     "TOTAL $600,000.00 60.00% $400,000.00 40.00%",
     "  Total $600.00 40% $900.00 60%",
     "total 50% 50%",
     "Total",
     "Subtotal $5.00 100%",
     "Totals $100.00 25% $300.00 75%"}

\* Lines given to extractMovementInValue: the section heading, a row for
\* each label, a label without a value, and the heading of the next section.
MovementLines ==
    {"Movement in Value",
     "Starting market value 1,000.00",
     "Net withdrawal (50.00)",
     "Realised and unrealised gains 20.00",
     "Investment income 30.50",
     "Other 5.00",
     "Ending market value 1,100.00",
     "Ending market value 900.00",
     "Ending market value",
     "Movement in value 100.00",
     "Portfolio Return"}

\* Lines given to extractTWRValues: a header, the TWR row, a TWR row that
\* also carries the header's '1 year', a row of another return, a TWR row
\* with a hyphen in its label, a TWR row without values.
TwrLines ==
    {"Return over time 1 Year 3 Years Since 01/07/2020",
     "Investment return before expenses (TWR) 12.95% - 33.82% -4.47%",
     "Investment return before expenses (TWR) 1 year 12.95%",
     "Investment return after expenses (TWR) 11.00%",
     "Pre-tax investment return before expenses (TWR) 5.5% 6%",
     "Investment return before expenses (TWR)",
     "Portfolio Return"}

\* Lines given to extractPortfolioReturn: the section heading, rows with a
\* value, two rows of one label, a label without a value, a row that carries
\* two labels, a heading that
\* carries both 'portfolio return' and 'return over time', and the header of
\* the table that follows the section.
PortfolioLines ==
    {"Portfolio Return",
     "Realised and unrealised gains 20.00",
     "Investment income 30.50",
     "Investment income 9.00",
     "Investment income",
     "Franking credits on investment income 1.00",
     "Total dollar return after expenses (48.00)",
     "Portfolio return over time",
     "Return over time 1 Year 3 Years"}

\* Reports given to validateReport: what parseAssetAllocationReport returns
\* for documents with and without a TOTAL row, such reports with holdings put
\* in, with the lists missing, and performance reports with and without
\* period and dollar return.
ValidatedReports ==
    LET parsed == {parseAssetAllocationReport(ExtractedPdf(<<lines>>).fullText,
                                              ExtractedPdf(<<lines>>).pages) :
                       lines \in SeqsUpTo(AllocationLines, 1)}
        holding == [name |-> Str("BHP"), value |-> Num(400)]
    IN  parsed
          \cup {[r EXCEPT !.holdings = Arr(<<holding>>)] : r \in parsed}
          \cup {[reportType |-> Str("asset_allocation")],
                [reportType |-> Str("asset_allocation"), assetClasses |-> NULL,
                 holdings |-> Arr(<<holding>>)]}
          \cup {[reportType |-> Str("performance"),
                 period |-> [from |-> from, to |-> to],
                 dollarReturnAfterExpenses |-> amount] :
                    from \in {NULL, Str("2025-07-01")},
                    to \in {NULL, Str("2025-12-07")},
                    amount \in {NULL, Num(0), Num(48)}}
          \cup {[reportType |-> Str("performance"), period |-> NULL]}

\* Lines of the documents given to parseReport.
ReportLines ==
    {"CLASS Super",
     "Investment Allocation as at year end",
     "TOTAL $600.00 40% $900.00 60%",
     "Investment Movement and Returns Report",
     "Investment return before expenses (TWR) 12.95% - 33.82% -4.47%",
     "Statement for the period from 1 July 2025 to 7 December 2025"}

\* The values parseCurrency is called on: amounts as the reports print them,
\* texts that are no amount, numbers, null and undefined, and objects with
\* and without a usable toString.
CurrencyInputs ==
    {Str(t) : t \in {"", "$1,234.56", "(1,234.56)", "(1,234)", "1,234", "-5.5",
                     " 12 ", "$", "abc", "n/a (12)", "1e3", "1e400",
                     "Infinity", "-Infinity", "(Infinity)"}}
      \cup {NULL, UNDEFINED, Num(0), Num(5), Num(-12), Num(1234),
            [type |-> "number", nan |-> TRUE], [type |-> "number", inf |-> 1],
            [amount |-> Num(5)], [toString |-> NULL]}

\* The calls examined, each a function and its arguments: identifyReportType
\* on texts of at most MaxTextLines lines, parseReport on one page of at
\* most MaxPageLines lines, parseAssetAllocationReport on a first page of at
\* most MaxPageLines lines and a second page of at most one line, and the
\* extractors on at most MaxSectionLines lines.
ParseCalls ==
    LET IdentifyTexts == {JoinLines(t) : t \in SeqsUpTo(IdentifyLines, MaxTextLines)}
        AllocationDocuments ==
            {<<first>> : first \in SeqsUpTo(AllocationLines, MaxPageLines)}
              \cup {<<first, second>> :
                        first \in SeqsUpTo(AllocationLines, MaxPageLines),
                        second \in SeqsUpTo(AllocationLines, 1)}
    IN  {[fn |-> "identifyReportType", args |-> <<t>>] : t \in IdentifyTexts}
          \cup {[fn |-> "parseReport", args |-> <<ExtractedPdf(<<lines>>)>>] :
                    lines \in SeqsUpTo(ReportLines, MaxPageLines)}
          \cup {[fn |-> "parseAssetAllocationReport",
                  args |-> <<ExtractedPdf(d).fullText, ExtractedPdf(d).pages>>] :
                    d \in AllocationDocuments}
          \cup {[fn |-> "extractMovementInValue", args |-> <<lines>>] :
                    lines \in SeqsUpTo(MovementLines, MaxSectionLines)}
          \cup {[fn |-> "extractTWRValues", args |-> <<lines>>] :
                    lines \in SeqsUpTo(TwrLines, MaxSectionLines)}
          \cup {[fn |-> "extractPortfolioReturn", args |-> <<lines>>] :
                    lines \in SeqsUpTo(PortfolioLines, MaxSectionLines)}
          \cup {[fn |-> "validateReport", args |-> <<report, type>>] :
                    report \in ValidatedReports,
                    type \in {"asset_allocation", "performance", "unknown"}}
          \cup {[fn |-> "parseCurrency", args |-> <<value>>] :
                    value \in CurrencyInputs}

InitParse ==
    /\ fund = NULL
    /\ now = 0
    /\ stage = "none"
    /\ rawAlloc = NULL
    /\ rawPerf = NULL
    /\ lastOp = [op |-> "none", type |-> ""]
    /\ call \in ParseCalls
    /\ result = PENDING
    /\ wizard = NULL

CallIdentifyReportType ==
    /\ call.fn = "identifyReportType"
    /\ result = PENDING
    /\ result' = [identification |-> identifyReportType(call.args[1])]
    /\ UNCHANGED <<wizard, fund, now, stage, rawAlloc, rawPerf, lastOp, call>>

CallParseReport ==
    /\ call.fn = "parseReport"
    /\ result = PENDING
    /\ result' = parseReport(call.args[1])
    /\ UNCHANGED <<wizard, fund, now, stage, rawAlloc, rawPerf, lastOp, call>>

CallParseAssetAllocationReport ==
    /\ call.fn = "parseAssetAllocationReport"
    /\ result = PENDING
    /\ result' = parseAssetAllocationReport(call.args[1], call.args[2])
    /\ UNCHANGED <<wizard, fund, now, stage, rawAlloc, rawPerf, lastOp, call>>

CallExtractMovementInValue ==
    /\ call.fn = "extractMovementInValue"
    /\ result = PENDING
    /\ result' = extractMovementInValue(call.args[1])
    /\ UNCHANGED <<wizard, fund, now, stage, rawAlloc, rawPerf, lastOp, call>>

CallExtractPortfolioReturn ==
    /\ call.fn = "extractPortfolioReturn"
    /\ result = PENDING
    /\ result' = extractPortfolioReturn(call.args[1])
    /\ UNCHANGED <<wizard, fund, now, stage, rawAlloc, rawPerf, lastOp, call>>

CallExtractTWRValues ==
    /\ call.fn = "extractTWRValues"
    /\ result = PENDING
    /\ result' = extractTWRValues(call.args[1])
    /\ UNCHANGED <<wizard, fund, now, stage, rawAlloc, rawPerf, lastOp, call>>

CallValidateReport ==
    /\ call.fn = "validateReport"
    /\ result = PENDING
    /\ result' = validateReport(call.args[1], call.args[2])
    /\ UNCHANGED <<wizard, fund, now, stage, rawAlloc, rawPerf, lastOp, call>>

CallParseCurrency ==
    /\ call.fn = "parseCurrency"
    /\ result = PENDING
    /\ result' = [value |-> parseCurrency(call.args[1])]
    /\ UNCHANGED <<wizard, fund, now, stage, rawAlloc, rawPerf, lastOp, call>>

NextParse ==
    \/ CallIdentifyReportType
    \/ CallParseReport
    \/ CallParseAssetAllocationReport
    \/ CallExtractMovementInValue
    \/ CallExtractPortfolioReturn
    \/ CallExtractTWRValues
    \/ CallValidateReport
    \/ CallParseCurrency

SpecParse == InitParse /\ [][NextParse]_vars

-----------------------------------------------------------------------------
(* components/UploadWizard.jsx: the wizard's state, the uploads whose text    *)
(* extraction is awaited, and the callbacks invoked.  An upload is two      *)
(* steps: handleFileUpload up to `await extractTextFromPDF(file)`, and the  *)
(* rest of the handler when the extraction settles; the handler reads       *)
(* parsedData and currentStep as they were in the render it was created in. *)

MaxUploads == 3     \* most invocations of handleFileUpload in a behaviour

STEPS ==
    <<[id |-> 1, key |-> "asset_allocation", title |-> "Asset Allocation Report",
       expectedType |-> "asset_allocation"],
      [id |-> 2, key |-> "performance", title |-> "Performance Report",
       expectedType |-> "performance"]>>

\* The files dropped, each by what extractTextFromPDF settles to for it: an
\* allocation report, a performance report, a document of less than 100
\* characters, a long document of no known type, and a file pdf.js rejects.
WizardFiles ==
    {ExtractedPdf(<<<<"Investment Allocation, Asset Allocation as at, Current Allocation, Australian Equities, International Equities, Fixed Interest, Listed Property, Cash",
                     "TOTAL $600.00 40% $900.00 60%">>>>),
     ExtractedPdf(<<<<"Investment Movement and Returns, Time Weighted Return TWR, Opening Balance, Closing Balance, Net Return",
                     "Investment return before expenses (TWR) 12.95% - 33.82% -4.47%">>>>),
     ExtractedPdf(<<<<"CLASS Super">>>>),
     ExtractedPdf(<<<<"CLASS Super member statement for the financial year, prepared by the administrator of the fund, page 1 of 1">>>>),
     Thrown("Failed to extract text from PDF: Invalid PDF structure")}

\* handleFileUpload from the settled extraction to the parsed report: the
\* report's data, or the message of the error the try block raises.
UploadOutcome(extractedPdf, stepKey) ==
    LET \* STEPS.find(s => s.key === stepKey)
        step == IF stepKey = STEPS[1].key THEN STEPS[1] ELSE STEPS[2]
        Failed(message) == [ok |-> FALSE, message |-> message]
        \* from `const parsed = await parseReport(extractedPdf)`
        Parsed(parsed) ==
            IF parsed.settled = "rejected" THEN Failed(parsed.error)
            ELSE [ok |-> TRUE, data |-> parsed.value.data]
        \* from the check of the identified report type
        Identified(identification) ==
            IF identification = NULL
            THEN Failed("This appears to be a Unknown report type. Please upload a "
                          \o step.title \o " for this step.")
            ELSE IF identification.type # Str(step.expectedType)
            THEN Failed("This appears to be a " \o identification.name.str
                          \o ". Please upload a " \o step.title
                          \o " for this step.")
            ELSE Parsed(parseReport(extractedPdf))
    IN  IF "thrown" \in DOMAIN extractedPdf THEN Failed(extractedPdf.thrown)
        ELSE IF Len(extractedPdf.fullText) < 100
        THEN Failed("Could not extract text from PDF. The file may be image-based or corrupted.")
        ELSE Identified(identifyReportType(extractedPdf.fullText))

\* The outcome of each file on each step's card.
UploadOutcomes ==
    [file \in WizardFiles |->
        [stepKey \in {"asset_allocation", "performance"} |->
            UploadOutcome(file, stepKey)]]

InitWizard ==
    /\ fund = NULL
    /\ now = 0
    /\ stage = "none"
    /\ rawAlloc = NULL
    /\ rawPerf = NULL
    /\ lastOp = [op |-> "none", type |-> ""]
    /\ call = NoCall
    /\ result = NULL
    /\ wizard = [currentStep |-> 1,
                 uploadStatus |-> [asset_allocation |-> "idle", performance |-> "idle"],
                 parsedData |-> [asset_allocation |-> NULL, performance |-> NULL],
                 errors |-> [asset_allocation |-> NULL, performance |-> NULL],
                 \* per step, the invocation awaiting its extraction: what
                 \* its try block comes to for the file dropped, and the
                 \* parsedData and currentStep its closure holds
                 awaiting |-> [asset_allocation |-> NULL, performance |-> NULL],
                 \* the steps setTimeout callbacks will set as current
                 timers |-> {},
                 \* the arguments onPartialData and onComplete were invoked with
                 onPartialData |-> <<>>,
                 onComplete |-> <<>>,
                 uploads |-> 0]

\* handleFileUpload(file, null, stepKey) up to the first await.  The file
\* input of a step is disabled while the step's status is 'processing'.
StartUpload ==
    \E stepKey \in {"asset_allocation", "performance"}, file \in WizardFiles :
        /\ wizard.uploads < MaxUploads
        /\ wizard.uploadStatus[stepKey] # "processing"
        /\ wizard' = [wizard EXCEPT
                         !.uploadStatus[stepKey] = "processing",
                         !.errors[stepKey] = NULL,
                         !.awaiting[stepKey] =
                             [outcome |-> UploadOutcomes[file][stepKey],
                              parsedData |-> wizard.parsedData,
                              currentStep |-> wizard.currentStep],
                         !.uploads = @ + 1]
        /\ lastOp' = [op |-> "started", type |-> stepKey]
        /\ UNCHANGED <<fund, now, stage, rawAlloc, rawPerf, call, result>>

\* handleFileUpload(null, 'No file selected', stepKey): the error branch.
RejectFile ==
    \E stepKey \in {"asset_allocation", "performance"} :
        /\ wizard.uploads < MaxUploads
        /\ wizard.uploadStatus[stepKey] # "processing"
        /\ wizard' = [wizard EXCEPT
                         !.errors[stepKey] = Str("No file selected"),
                         !.uploadStatus[stepKey] = "error",
                         !.uploads = @ + 1]
        /\ lastOp' = [op |-> "rejected", type |-> stepKey]
        /\ UNCHANGED <<fund, now, stage, rawAlloc, rawPerf, call, result>>

\* The try block running to its end once the extraction has settled.
CompleteUpload ==
    \E stepKey \in {"asset_allocation", "performance"} :
        /\ wizard.awaiting[stepKey] # NULL
        /\ wizard.awaiting[stepKey].outcome.ok
        /\ LET closure == wizard.awaiting[stepKey]
               data == closure.outcome.data
               newParsedData == [closure.parsedData EXCEPT ![stepKey] = data]
               other == IF stepKey = "performance" THEN "asset_allocation"
                        ELSE "performance"
           IN  wizard' = [wizard EXCEPT
                   !.parsedData = newParsedData,
                   !.uploadStatus[stepKey] = "success",
                   !.onPartialData = Append(@, <<stepKey, data>>),
                   !.timers = IF closure.currentStep < Len(STEPS)
                              THEN @ \cup {closure.currentStep + 1} ELSE @,
                   !.onComplete = IF Truthy(newParsedData[other])
                                  THEN Append(@, newParsedData) ELSE @,
                   !.awaiting[stepKey] = NULL]
        /\ lastOp' = [op |-> "succeeded", type |-> stepKey]
        /\ UNCHANGED <<fund, now, stage, rawAlloc, rawPerf, call, result>>

\* The catch block storing the parsed data its closure holds, without the
\* failed step's report.
FailUploadDroppingData ==
    \E stepKey \in {"asset_allocation", "performance"} :
        /\ wizard.awaiting[stepKey] # NULL
        /\ ~wizard.awaiting[stepKey].outcome.ok
        /\ wizard' = [wizard EXCEPT
               !.parsedData = [wizard.awaiting[stepKey].parsedData
                                  EXCEPT ![stepKey] = NULL],
               !.errors[stepKey] = Str(wizard.awaiting[stepKey].outcome.message),
               !.uploadStatus[stepKey] = "error",
               !.awaiting[stepKey] = NULL]
        /\ lastOp' = [op |-> "failed", type |-> stepKey]
        /\ UNCHANGED <<fund, now, stage, rawAlloc, rawPerf, call, result>>

\* The catch block, for an error raised anywhere in the try block.
FailUpload ==
    \E stepKey \in {"asset_allocation", "performance"} :
        /\ wizard.awaiting[stepKey] # NULL
        /\ ~wizard.awaiting[stepKey].outcome.ok
        /\ wizard' = [wizard EXCEPT
               !.errors[stepKey] = Str(wizard.awaiting[stepKey].outcome.message),
               !.uploadStatus[stepKey] = "error",
               !.awaiting[stepKey] = NULL]
        /\ lastOp' = [op |-> "failed", type |-> stepKey]
        /\ UNCHANGED <<fund, now, stage, rawAlloc, rawPerf, call, result>>

\* A setTimeout callback of a completed upload: setCurrentStep(currentStep + 1)
\* with the currentStep of the handler's closure.
AdvanceStep ==
    \E step \in wizard.timers :
        /\ wizard' = [wizard EXCEPT !.currentStep = step, !.timers = @ \ {step}]
        /\ lastOp' = [op |-> "advanced", type |-> ""]
        /\ UNCHANGED <<fund, now, stage, rawAlloc, rawPerf, call, result>>

\* A click on a step's indicator: setCurrentStep(step.id).
SelectStep ==
    \E step \in 1..Len(STEPS) :
        /\ wizard.currentStep # step
        /\ wizard' = [wizard EXCEPT !.currentStep = step]
        /\ lastOp' = [op |-> "selected", type |-> STEPS[step].key]
        /\ UNCHANGED <<fund, now, stage, rawAlloc, rawPerf, call, result>>

\* handleReset(stepKey), offered on the card of a step whose status is
\* 'success'.
Reset ==
    \E stepKey \in {"asset_allocation", "performance"} :
        /\ wizard.uploadStatus[stepKey] = "success"
        /\ wizard' = [wizard EXCEPT !.parsedData[stepKey] = NULL,
                                    !.uploadStatus[stepKey] = "null",
                                    !.errors[stepKey] = NULL]
        /\ lastOp' = [op |-> "reset", type |-> stepKey]
        /\ UNCHANGED <<fund, now, stage, rawAlloc, rawPerf, call, result>>

NextWizard ==
    \/ StartUpload
    \/ RejectFile
    \/ CompleteUpload
    \/ FailUpload
    \/ AdvanceStep
    \/ SelectStep
    \/ Reset

SpecWizard == InitWizard /\ [][NextWizard]_vars

-----------------------------------------------------------------------------
(* Claims about the fund model builder (checked under Spec) *)

\* A FundModel without its lastUpdated field.
WithoutLastUpdated(f) == [k \in DOMAIN f \ {"lastUpdated"} |-> f[k]]

\* The derived fields of a FundModel.
DerivedOf(f) ==
    [k \in {"classification", "benchmark", "benchmarkComparison",
            "performanceScore", "derivedInsights", "analysisStatus",
            "analysisMessage"} |-> f[k]]

\* C1: a model built from createEmptyFundModel by updateFundModel with the
\* allocation report and then updateFundModel with the performance report
\* equals, in every field other than lastUpdated, the model createFundModel
\* builds from the same two reports.
C1_IncrementalEqualsCreate ==
    stage = "empty+allocation+performance" =>
        WithoutLastUpdated(fund)
          = WithoutLastUpdated(createFundModel(fund.fundId, rawAlloc, rawPerf, now))

\* C2: after createFundModel or updateFundModel the derived fields of the
\* model are what analyzeFund returns for the two report slots the model
\* stores.
C2_DerivedFieldsMatchStoredReports ==
    lastOp.op \in {"createFundModel", "updateFundModel"} =>
        DerivedOf(fund)
          = DerivedFields(analyzeFund(fund.assetAllocation, fund.performance))

\* C2 restricted to the models updateFundModel returns (it analyses the
\* slots it stores).
C2_HoldsAfterUpdate ==
    lastOp.op = "updateFundModel" =>
        DerivedOf(fund)
          = DerivedFields(analyzeFund(fund.assetAllocation, fund.performance))

\* C3: updateFundModel for one report type leaves the other report slot as
\* it was, never turns a populated slot into null and keeps fundId.
C3_UpdateKeepsOtherSlot ==
    [][lastOp'.op = "updateFundModel" =>
          /\ fund'.fundId = fund.fundId
          /\ (lastOp'.type = "asset_allocation"
                => fund'.performance = fund.performance)
          /\ (lastOp'.type = "performance"
                => fund'.assetAllocation = fund.assetAllocation)
          /\ (fund.assetAllocation # NULL => fund'.assetAllocation # NULL)
          /\ (fund.performance # NULL => fund'.performance # NULL)]_vars

\* C3 witness: an allocation update has just been applied to a model whose
\* performance slot was populated, and both slots are populated.
C3_Witness ==
    /\ lastOp = [op |-> "updateFundModel", type |-> "asset_allocation"]
    /\ fund.performance # NULL
    /\ fund.assetAllocation # NULL
    /\ stage = "updated"

-----------------------------------------------------------------------------
(* Claims about the analysis engine (checked under SpecEngine) *)

Returned(fn) == call.fn = fn /\ result # PENDING

\* A report that carries a non-empty asset-class list.
CarriesAssetClasses(a) ==
    /\ IsObject(a)
    /\ "assetClasses" \in DOMAIN a
    /\ IsArray(a.assetClasses)
    /\ a.assetClasses.items # <<>>

\* A report that carries a TWR record.
CarriesTwr(p) == IsObject(p) /\ "twr" \in DOMAIN p /\ IsObject(p.twr)

\* C4: analyzeFund returns for every pair of arguments, absent ones
\* included; status is 'complete' exactly when the allocation carries a
\* non-empty asset-class list and the performance a TWR record, and 'partial'
\* otherwise; message is null exactly when status is 'complete' and is the
\* fixed guidance text otherwise.
C4_CompleteOnlyWithBothReports ==
    Returned("analyzeFund") =>
        LET both == CarriesAssetClasses(call.args[1]) /\ CarriesTwr(call.args[2])
        IN  /\ result.status = IF both THEN "complete" ELSE "partial"
            /\ (result.message = NULL) <=> (result.status = "complete")
            /\ result.status = "partial" =>
                   result.message =
                       Str("Upload both reports for complete analysis. Cannot classify fund without asset allocation data.")

\* C4 witness: analyzeFund returned 'partial' with a message for a call
\* whose allocation is absent although the performance carries a TWR record.
C4_Witness ==
    /\ Returned("analyzeFund")
    /\ call.args[1] = UNDEFINED
    /\ CarriesTwr(call.args[2])
    /\ result.status = "partial"
    /\ result.message # NULL

\* C5: when analyzeFund reports 'complete', classification is not
\* 'unknown', benchmarkComparison is not null and performanceScore is not
\* null.
C5_CompleteHasNoMissingPart ==
    (Returned("analyzeFund") /\ result.status = "complete") =>
        /\ result.classification.classification # "unknown"
        /\ result.benchmarkComparison # NULL
        /\ result.performanceScore # NULL

\* The list classifyFund was called with is a non-empty list whose values
\* sum to more than 0.
PositiveTotalList ==
    /\ Returned("classifyFund")
    /\ IsArray(call.args[1])
    /\ call.args[1].items # <<>>
    /\ SumValues(call.args[1].items) > 0

\* The three returned percentages add up to 100 within 0.1, and otherPercent
\* is not negative.
PercentagesAddUp ==
    LET total == result.growthPercent.val + result.defensivePercent.val
                   + result.otherPercent.val
    IN  /\ total >= 10000 - 10
        /\ total <= 10000 + 10
        /\ result.otherPercent.val >= 0

NoNegativeValue ==
    \A i \in 1..Len(call.args[1].items) :
        toNumber(call.args[1].items[i].value) >= 0

TagOf(g) ==
    IF g < 3000 THEN "defensive" ELSE IF g > 7000 THEN "growth" ELSE "balanced"

\* C7 as stated: a classification other than 'unknown' is the tag of the
\* growthPercent returned with it.
C7_TagAgreesWithReturnedPercent ==
    (Returned("classifyFund") /\ result.classification # "unknown") =>
        result.classification = TagOf(result.growthPercent.val)

\* The sum of the values of the growth classes of a list, from the names of
\* constants.js.
RECURSIVE GrowthSum(_)
GrowthSum(items) ==
    IF items = <<>> THEN 0
    ELSE (IF Head(items).name.str \in
               {"Australian Equities", "International Equities",
                "Listed Property", "Direct Property"}
          THEN toNumber(Head(items).value) ELSE 0) + GrowthSum(Tail(items))

\* C7 amended: the tag is decided by the unrounded growth share g/t of the
\* list: 'defensive' exactly when 100 g/t < 30, 'growth' exactly when
\* 100 g/t > 70, 'balanced' otherwise; it is the tag of the returned
\* growthPercent unless that is exactly 30.0 or 70.0.
C7_TagAgreesWithUnroundedShare ==
    (Returned("classifyFund") /\ result.classification # "unknown") =>
        LET g == GrowthSum(call.args[1].items)
            t == SumValues(call.args[1].items)
        IN  /\ (result.classification = "defensive") <=> (100 * g < 30 * t)
            /\ (result.classification = "growth") <=> (100 * g > 70 * t)
            /\ (result.classification = "balanced")
                   <=> (100 * g >= 30 * t /\ 100 * g <= 70 * t)
            /\ result.growthPercent.val \notin {3000, 7000} =>
                   result.classification = TagOf(result.growthPercent.val)

\* C7 witness: a growth share of 62/207 (29.95%) came back as growthPercent
\* 30.0 tagged 'defensive'.
C7_Witness ==
    /\ Returned("classifyFund")
    /\ result.classification = "defensive"
    /\ result.growthPercent = Num(3000)

\* C8: classifyFund on an empty list, on something that is not a list, or on
\* a list whose values sum to 0 or less returns 'unknown' with all three
\* percentages 0, and so does analyzeFund when the allocation is absent.
C8_UnknownWhenNothingToClassify ==
    LET unknown == [classification |-> "unknown", growthPercent |-> Num(0),
                    defensivePercent |-> Num(0), otherPercent |-> Num(0)]
    IN  /\ (Returned("classifyFund") /\ ~PositiveTotalList) => result = unknown
        /\ (Returned("analyzeFund") /\ call.args[1] \in {NULL, UNDEFINED}) =>
               result.classification = unknown

\* C8 witness: classifyFund returned for a non-empty list whose values sum
\* to less than 0.
C8_Witness ==
    /\ Returned("classifyFund")
    /\ IsArray(call.args[1])
    /\ Len(call.args[1].items) = 2
    /\ SumValues(call.args[1].items) < 0
    /\ result.classification = "unknown"

\* One horizon of C9: null when the fund value or the benchmark return is
\* null or undefined, else a record whose difference is their difference.
HorizonAsClaimed(fundKey, benchmarkKey, horizon) ==
    LET fundValue == Get(call.args[1], fundKey)
        benchmarkValue == Get(Get(call.args[2], "returns"), benchmarkKey)
    IN  IF IsNullish(fundValue) \/ IsNullish(benchmarkValue)
        THEN result[horizon] = NULL
        ELSE /\ result[horizon] # NULL
             /\ result[horizon].difference = Num(fundValue.val - benchmarkValue.val)

\* C9: compareToBenchmark yields null for each horizon whose fund value or
\* benchmark return is absent (null or undefined), and otherwise a record
\* with difference = fundReturn - benchmarkReturn.
C9_NullWhenAnOperandIsAbsent ==
    Returned("compareToBenchmark") =>
        /\ HorizonAsClaimed("oneYear", "oneYear", "oneYear")
        /\ HorizonAsClaimed("threeYears", "threeYears", "threeYears")
        /\ HorizonAsClaimed("sinceStart", "sinceInception", "sinceInception")

\* The status claimed for a difference d (hundredths of a percentage point).
StatusAsClaimed(d, status) ==
    /\ status \in {"strong_outperformance", "slight_outperformance", "inline",
                   "slight_underperformance", "strong_underperformance"}
    /\ (status = "strong_outperformance") <=> (d >= 200)
    /\ (status = "slight_outperformance") <=> (d >= 50 /\ d < 200)
    /\ (status = "inline") <=> (d >= -50 /\ d < 50)
    /\ (status = "slight_underperformance") <=> (d >= -200 /\ d < -50)
    /\ (status = "strong_underperformance") <=> (d < -200)

\* C10: the status of a difference d is strong_outperformance for d >= 2.0,
\* slight_outperformance for 0.5 <= d < 2.0, inline for -0.5 <= d < 0.5,
\* slight_underperformance for -2.0 <= d < -0.5 and strong_underperformance
\* for d < -2.0, in getPerformanceStatus and in every horizon comparison
\* compareToBenchmark returns.
C10_StatusPartitionsDifferences ==
    /\ Returned("getPerformanceStatus") =>
           StatusAsClaimed(call.args[1].val, result.status)
    /\ Returned("compareToBenchmark") =>
           \A h \in {"oneYear", "threeYears", "sinceInception"} :
               result[h] # NULL =>
                   StatusAsClaimed(result[h].difference.val, result[h].status)

\* C10 witness: a one-year comparison whose difference is exactly 2.0 came
\* back as strong_outperformance.
C10_Witness ==
    /\ Returned("compareToBenchmark")
    /\ result.oneYear # NULL
    /\ result.oneYear.difference = Num(200)
    /\ result.oneYear.status = "strong_outperformance"

\* The band claimed for a one-year TWR (hundredths of a percent): +15 from
\* 15, +10 from 8, +5 from 4, -10 below 0, 0 otherwise and when there is none.
BandAsClaimed(oneYear) ==
    IF ~IsNumber(oneYear) THEN 0
    ELSE CASE oneYear.val >= 1500 -> 15
           [] oneYear.val >= 800 /\ oneYear.val < 1500 -> 10
           [] oneYear.val >= 400 /\ oneYear.val < 800 -> 5
           [] oneYear.val < 0 -> -10
           [] OTHER -> 0

\* The score claimed, from the one-year difference d in hundredths of a
\* percentage point (or no one-year comparison) and the band: 50 plus 5 * d
\* held within -25..25 plus the band, rounded half up, held within 0..100.
ScoreAsClaimed(hasOneYear, d, band) ==
    LET rel == IF ~hasOneYear THEN 0
               ELSE IF 5 * d > 2500 THEN 2500
               ELSE IF 5 * d < -2500 THEN -2500 ELSE 5 * d
        hundredths == 5000 + rel + 100 * band
        rounded == CHOOSE n \in -100..200 :
                       100 * n <= hundredths + 50 /\ hundredths + 50 < 100 * (n + 1)
    IN  IF rounded < 0 THEN 0 ELSE IF rounded > 100 THEN 100 ELSE rounded

\* C11: calculatePerformanceScore returns null when the performance report
\* or the comparison is absent, and otherwise the integer
\* clamp(round(50 + clamp(5 * oneYearDifference, -25, 25) + band), 0, 100),
\* the relative part counted only when a one-year comparison exists; the
\* score analyzeFund reports is that of its performance argument and its
\* benchmark comparison.
C11_ScoreIsBaseRelativeBand ==
    /\ Returned("calculatePerformanceScore") =>
         LET performance == call.args[1]
             comparison == call.args[2]
         IN  IF IsNullish(performance) \/ IsNullish(comparison)
             THEN result.score = NULL
             ELSE result.score =
                    Num(ScoreAsClaimed(
                          comparison.oneYear # NULL,
                          IF comparison.oneYear # NULL
                          THEN comparison.oneYear.difference.val ELSE 0,
                          BandAsClaimed(Get(Get(performance, "twr"), "oneYear"))))
    /\ Returned("analyzeFund") =>
         IF IsNullish(call.args[2]) \/ result.benchmarkComparison = NULL
         THEN result.performanceScore = NULL
         ELSE result.performanceScore =
                Num(ScoreAsClaimed(
                      result.benchmarkComparison.oneYear # NULL,
                      IF result.benchmarkComparison.oneYear # NULL
                      THEN result.benchmarkComparison.oneYear.difference.val ELSE 0,
                      BandAsClaimed(Get(Get(call.args[2], "twr"), "oneYear"))))

\* C11 witness: a one-year difference of +3.0 with a one-year TWR of 20 was
\* scored 80.
C11_Witness ==
    /\ Returned("calculatePerformanceScore")
    /\ call.args[2] \notin {NULL, UNDEFINED}
    /\ call.args[2].oneYear # NULL
    /\ call.args[2].oneYear.difference = Num(300)
    /\ call.args[1] = [twr |-> [oneYear |-> Num(2000)]]
    /\ result.score = Num(80)

\* The types of a list of insights, in order.
InsightTypes(insights) == [i \in 1..Len(insights) |-> insights[i].type]

RECURSIVE SumOfHoldings(_, _)
SumOfHoldings(holdings, indices) ==
    IF indices = {} THEN 0
    ELSE LET i == CHOOSE i \in indices : TRUE
         IN  holdings[i].value.val + SumOfHoldings(holdings, indices \ {i})

\* The value of the five largest holdings of a list (of all of them when
\* there are fewer): the largest sum five of them can have.
TopFiveValue(holdings) ==
    LET n == IF Len(holdings) < 5 THEN Len(holdings) ELSE 5
        sums == {SumOfHoldings(holdings, S) :
                    S \in {T \in SUBSET (1..Len(holdings)) : Cardinality(T) = n}}
    IN  CHOOSE m \in sums : \A x \in sums : x <= m

\* The holdings of an allocation report, when it has some.
HoldingsPresent(a) ==
    /\ IsObject(a)
    /\ "holdings" \in DOMAIN a
    /\ IsArray(a.holdings)
    /\ a.holdings.items # <<>>

\* A dollar-return figure is present in a performance report.
DollarReturnPresent(p) ==
    /\ IsObject(p)
    /\ \/ ~IsNullish(Get(p, "dollarReturnAfterExpenses"))
       \/ ~IsNullish(Get(p, "dollarReturn"))

\* The insight types claimed for an analyzeFund call that returned, given
\* whether the concentration trigger holds.
InsightsAsClaimed(concentrated) ==
    (IF ~CarriesAssetClasses(call.args[1]) THEN <<"data">> ELSE <<>>)
      \o (IF result.classification.classification # "unknown"
          THEN <<"classification">> ELSE <<>>)
      \o (IF result.benchmarkComparison # NULL
             /\ result.benchmarkComparison.oneYear # NULL
          THEN <<"performance">> ELSE <<>>)
      \o (IF concentrated THEN <<"concentration">> ELSE <<>>)
      \o (IF DollarReturnPresent(call.args[2]) THEN <<"return">> ELSE <<>>)

\* C12 as stated: the insights of analyzeFund are, in this order and each
\* exactly when its trigger holds, data (allocation absent), classification
\* (classification known), performance (a one-year comparison exists),
\* concentration (holdings present and the five largest exceed 40% of
\* totalValue) and return (a dollar-return figure present).
C12_InsightsFollowTriggers ==
    Returned("analyzeFund") =>
        InsightTypes(result.insights) =
            InsightsAsClaimed(
                /\ HoldingsPresent(call.args[1])
                /\ 100 * TopFiveValue(call.args[1].holdings.items)
                     > 40 * toNumber(Get(call.args[1], "totalValue")))

\* C12: as above, the concentration insight being present exactly when
\* holdings are present, totalValue is greater than 0 and the five largest
\* holdings exceed 40% of it.
C12_InsightsFollowTriggersPositiveTotal ==
    Returned("analyzeFund") =>
        InsightTypes(result.insights) =
            InsightsAsClaimed(
                /\ HoldingsPresent(call.args[1])
                /\ toNumber(Get(call.args[1], "totalValue")) > 0
                /\ 100 * TopFiveValue(call.args[1].holdings.items)
                     > 40 * toNumber(Get(call.args[1], "totalValue")))

\* C12 witness: an analysis came back with all of classification,
\* performance, concentration and return insights, in this order.
C12_Witness ==
    /\ Returned("analyzeFund")
    /\ InsightTypes(result.insights)
         = <<"classification", "performance", "concentration", "return">>

\* The one-year-vs-benchmark insights of a list.
BenchmarkInsights(insights) ==
    {insights[i] : i \in {j \in 1..Len(insights) : insights[j].type = "performance"}}

\* C13: the one-year-vs-benchmark insight has importance 'high' exactly when
\* the one-year status is strong_outperformance or strong_underperformance
\* and 'medium' otherwise; a one-year TWR of 12.95 against the balanced
\* benchmark (8.5) gives difference 4.45, status strong_outperformance and
\* importance 'high'.
C13_ImportanceFollowsStrength ==
    Returned("analyzeFund") =>
        /\ \A insight \in BenchmarkInsights(result.insights) :
              /\ insight.importance \in {"high", "medium"}
              /\ insight.importance = "high"
                   <=> result.benchmarkComparison.oneYear.status
                         \in {"strong_outperformance", "strong_underperformance"}
        /\ (/\ IsObject(call.args[2])
            /\ IsObject(Get(call.args[2], "twr"))
            /\ Get(call.args[2].twr, "oneYear") = Num(1295)
            /\ result.benchmark.name = BENCHMARKS.balanced.name)
           => /\ result.benchmarkComparison.oneYear.benchmarkReturn = Num(850)
              /\ result.benchmarkComparison.oneYear.difference = Num(445)
              /\ result.benchmarkComparison.oneYear.status = "strong_outperformance"
              /\ \E insight \in BenchmarkInsights(result.insights) :
                     insight.importance = "high"

\* C13 witness: 12.95 was compared with the balanced benchmark and the
\* insight came back 'high'.
C13_Witness ==
    /\ Returned("analyzeFund")
    /\ result.benchmark.name = BENCHMARKS.balanced.name
    /\ result.benchmarkComparison # NULL
    /\ result.benchmarkComparison.oneYear # NULL
    /\ result.benchmarkComparison.oneYear.fundReturn = Num(1295)
    /\ result.benchmarkComparison.oneYear.difference = Num(445)
    /\ \E insight \in BenchmarkInsights(result.insights) : insight.importance = "high"

\* C13 witness of the other importance: a slight underperformance came back
\* 'medium'.
C13_WitnessMedium ==
    /\ Returned("analyzeFund")
    /\ result.benchmarkComparison # NULL
    /\ result.benchmarkComparison.oneYear # NULL
    /\ result.benchmarkComparison.oneYear.status = "slight_underperformance"
    /\ \E insight \in BenchmarkInsights(result.insights) : insight.importance = "medium"

\* The benchmark claimed for an argument of getBenchmark.
BenchmarkAsClaimed(tag) ==
    IF tag = Str("defensive") THEN BENCHMARKS.defensive
    ELSE IF tag = Str("growth") THEN BENCHMARKS.growth
    ELSE BENCHMARKS.balanced

\* C14: getBenchmark returns the defensive, balanced or growth benchmark
\* record for exactly those three tags, and the balanced benchmark record
\* for 'unknown', for a non-string argument and for every other
\* unrecognized tag string.
C14_UnrecognizedTagGetsBalanced ==
    Returned("getBenchmark") =>
        result.benchmark = BenchmarkAsClaimed(call.args[1])

\* C14 for the arguments that are not the name of a property every object
\* inherits.
C14_HoldsForOrdinaryTags ==
    (/\ Returned("getBenchmark")
     /\ ~(IsString(call.args[1]) /\ call.args[1].str \in OBJECT_PROTOTYPE_KEYS))
        => result.benchmark = BenchmarkAsClaimed(call.args[1])

-----------------------------------------------------------------------------
(* C15, C16: identification of the report type *)

\* The number of a type's fingerprints that occur in the text, compared
\* without regard to case.
FingerprintsFound(text, fingerprints) ==
    LET lower == toLowerCase(text)
    IN  Cardinality({i \in 1..Len(fingerprints) :
                        \E k \in 1..(Len(text) - Len(fingerprints[i]) + 1) :
                            SubSeq(lower, k, k + Len(fingerprints[i]) - 1)
                              = fingerprints[i]})

\* No registered type reaches its minMatchCount (1 for both types).
NoTypeEligible(text) ==
    /\ FingerprintsFound(text, REPORT_FINGERPRINTS.PERFORMANCE) < 1
    /\ FingerprintsFound(text, REPORT_FINGERPRINTS.ASSET_ALLOCATION) < 1

\* The type and confidence the description gives for a text in which at
\* least one type is eligible: asset_allocation when its confidence is
\* strictly higher than that of performance (found/9 > found/8 compared by
\* cross-multiplication), performance otherwise.
IdentifiedAsClaimed(text) ==
    LET perf == FingerprintsFound(text, REPORT_FINGERPRINTS.PERFORMANCE)
        alloc == FingerprintsFound(text, REPORT_FINGERPRINTS.ASSET_ALLOCATION)
    IN  IF alloc >= 1 /\ (perf < 1 \/ alloc * 8 > perf * 9)
        THEN [type |-> Str("asset_allocation"), matchCount |-> Num(alloc),
              confidence |-> Quot(100 * alloc, 9)]
        ELSE [type |-> Str("performance"), matchCount |-> Num(perf),
              confidence |-> Quot(100 * perf, 8)]

\* C15: for every text with an eligible type, identifyReportType returns the
\* eligible type of strictly highest confidence, performance on a tie, with
\* matchCount the number of that type's fingerprints found in the text
\* regardless of case and confidence = matchCount / totalFingerprints * 100.
C15_HighestConfidenceFirstRegisteredOnTie ==
    (Returned("identifyReportType") /\ ~NoTypeEligible(call.args[1]))
        => /\ result.identification # NULL
           /\ result.identification.type = IdentifiedAsClaimed(call.args[1]).type
           /\ result.identification.matchCount
                = IdentifiedAsClaimed(call.args[1]).matchCount
           /\ result.identification.confidence
                = IdentifiedAsClaimed(call.args[1]).confidence

\* A text with 5 of the 9 allocation fingerprints and none of the 8
\* performance fingerprints is identified as asset_allocation with
\* confidence 500/9 (55.6 to one decimal).
C15_Witness ==
    /\ Returned("identifyReportType")
    /\ FingerprintsFound(call.args[1], REPORT_FINGERPRINTS.ASSET_ALLOCATION) = 5
    /\ FingerprintsFound(call.args[1], REPORT_FINGERPRINTS.PERFORMANCE) = 0
    /\ result.identification # NULL
    /\ result.identification.type = Str("asset_allocation")
    /\ result.identification.confidence = Quot(500, 9)
    /\ 555 * 9 < 10 * 500 /\ 10 * 500 < 556 * 9

\* A text with every fingerprint of both types (both confidences 100) is
\* identified as performance.
C15_WitnessTie ==
    /\ Returned("identifyReportType")
    /\ FingerprintsFound(call.args[1], REPORT_FINGERPRINTS.ASSET_ALLOCATION) = 9
    /\ FingerprintsFound(call.args[1], REPORT_FINGERPRINTS.PERFORMANCE) = 8
    /\ result.identification # NULL
    /\ result.identification.type = Str("performance")

\* C16: identifyReportType returns null exactly when no registered type
\* reaches its minMatchCount, and parseReport on such a document is rejected
\* with an error, has invoked no parser and carries no value.
C16_UnidentifiedReportIsRejected ==
    /\ Returned("identifyReportType")
         => (result.identification = NULL <=> NoTypeEligible(call.args[1]))
    /\ (Returned("parseReport") /\ NoTypeEligible(call.args[1].fullText))
         => /\ result.settled = "rejected"
            /\ result.error # ""
            /\ result.parsers = <<>>
            /\ "value" \notin DOMAIN result

\* parseReport has rejected a document with text in which no fingerprint
\* occurs.
C16_Witness ==
    /\ Returned("parseReport")
    /\ call.args[1].fullText # ""
    /\ NoTypeEligible(call.args[1].fullText)
    /\ result.settled = "rejected"

\* identifyReportType has returned null for a non-empty text.
C16_WitnessNull ==
    /\ Returned("identifyReportType")
    /\ call.args[1] # ""
    /\ result.identification = NULL

-----------------------------------------------------------------------------
(* C17: the TOTAL row of an allocation report *)

\* The positions, in the lines of all pages in order, of the lines whose
\* trimmed, lower-cased text starts with 'total'.
TrimmedTotalLines(lines) ==
    {i \in 1..Len(lines) : startsWith(trim(toLowerCase(lines[i])), "total")}

\* The lines of the pages given to parseAssetAllocationReport.
GivenLines == AllLines(call.args[2])

\* C17: parseAssetAllocationReport parses as the TOTAL row the first line
\* over all pages whose trimmed, lower-cased text starts with 'total', also
\* when that line begins with whitespace; without such a line it returns
\* totalValue null and an empty asset-class list.
C17_TotalRowIsFirstTrimmedTotalLine ==
    Returned("parseAssetAllocationReport")
        => IF TrimmedTotalLines(GivenLines) = {}
           THEN /\ result.totalValue = NULL
                /\ result.assetClasses = Arr(<<>>)
           ELSE result.assetClasses
                  = Arr(parseTotalRow(
                        GivenLines[FirstPosition(TrimmedTotalLines(GivenLines))]))

\* The part of C17 that holds: when no line of the document begins with
\* whitespace, the first line starting with 'total' in any case is parsed,
\* and a document without one gives totalValue null and no asset class.
C17_HoldsWithoutLeadingWhitespace ==
    (/\ Returned("parseAssetAllocationReport")
     /\ \A i \in 1..Len(GivenLines) : CharAt(GivenLines[i], 1) \notin SPACES)
        => IF TrimmedTotalLines(GivenLines) = {}
           THEN /\ result.totalValue = NULL
                /\ result.assetClasses = Arr(<<>>)
           ELSE result.assetClasses
                  = Arr(parseTotalRow(
                        GivenLines[FirstPosition(TrimmedTotalLines(GivenLines))]))

\* A document whose only 'total' line is indented has been parsed, and the
\* report carries no asset class.
C17_IndentedTotalRowMissed ==
    /\ Returned("parseAssetAllocationReport")
    /\ TrimmedTotalLines(GivenLines) # {}
    /\ result.totalValue = NULL
    /\ result.assetClasses = Arr(<<>>)

-----------------------------------------------------------------------------
(* C18: the TOTAL row 'TOTAL $600,000.00 60.00% $400,000.00 40.00%' *)

ScenarioARow == "TOTAL $600,000.00 60.00% $400,000.00 40.00%"

\* The report's TOTAL row is the row of scenario A: no line before it
\* starts with 'total', trimmed or not.
ScenarioAParsed ==
    /\ Returned("parseAssetAllocationReport")
    /\ \E i \in 1..Len(GivenLines) :
           /\ GivenLines[i] = ScenarioARow
           /\ \A k \in 1..(i - 1) : k \notin TrimmedTotalLines(GivenLines)

\* C18: for the TOTAL row of scenario A the populated columns are
\* Australian Equities 600,000 (60%) and Australian Fixed Interest 400,000
\* (40%) and no other, totalValue is 1,000,000, and classification of the
\* extracted classes gives growthPercent 60.0 and 'balanced'.  Percentages
\* are in hundredths of a percent.
C18_ScenarioAExtractsTwoColumns ==
    ScenarioAParsed
        => /\ result.assetClasses
                = Arr(<<[name |-> Str("Australian Equities"),
                         value |-> Num(600000), percent |-> Num(6000),
                         source |-> Str("total_row")],
                        [name |-> Str("Australian Fixed Interest"),
                         value |-> Num(400000), percent |-> Num(4000),
                         source |-> Str("total_row")]>>)
           /\ result.totalValue = Num(1000000)
           /\ classifyFund(result.assetClasses).growthPercent = Num(6000)
           /\ classifyFund(result.assetClasses).classification = "balanced"

\* The part of C18 that holds: the extracted classes are classified
\* 'balanced' with growthPercent 60.0, and Australian Equities is 600,000
\* (60%).
C18_ScenarioAClassifiedBalanced ==
    ScenarioAParsed
        => /\ classifyFund(result.assetClasses).growthPercent = Num(6000)
           /\ classifyFund(result.assetClasses).classification = "balanced"
           /\ result.assetClasses.items[1]
                = [name |-> Str("Australian Equities"),
                   value |-> Num(600000), percent |-> Num(6000),
                   source |-> Str("total_row")]

\* What the code extracts from the row: four populated columns, the second
\* and fourth valued by the percentages' digits, and totalValue 1,000,100.
C18_FourColumnsPopulated ==
    /\ ScenarioAParsed
    /\ Len(result.assetClasses.items) = 4
    /\ result.assetClasses.items[2]
         = [name |-> Str("Australian Fixed Interest"),
            value |-> Num(60), percent |-> Num(4000), source |-> Str("total_row")]
    /\ result.assetClasses.items[3]
         = [name |-> Str("Cash"),
            value |-> Num(400000), percent |-> NULL, source |-> Str("total_row")]
    /\ result.assetClasses.items[4]
         = [name |-> Str("International Equities"),
            value |-> Num(40), percent |-> NULL, source |-> Str("total_row")]
    /\ result.totalValue = Num(1000100)

-----------------------------------------------------------------------------
(* C19: the rows of the Movement in Value section *)

\* Line j is inside the Movement in Value section: after the first line
\* that contains 'movement in value' (and not 'portfolio'), with no line
\* that opens the next section in between or at j.
InsideMovementSection(lines, j) ==
    LET Heading(i) == /\ includes(toLowerCase(lines[i]), "movement in value")
                      /\ ~includes(toLowerCase(lines[i]), "portfolio")
        Ending(i) == \/ includes(toLowerCase(lines[i]), "portfolio value versus")
                     \/ includes(toLowerCase(lines[i]), "portfolio return")
    IN  \E h \in 1..(j - 1) :
            /\ Heading(h)
            /\ \A i \in 1..(h - 1) : ~Heading(i)
            /\ \A i \in (h + 1)..j : ~Ending(i)

\* The rows given, each with the field of its label and its amount.
MovementRows ==
    {<<"Starting market value 1,000.00", "startingMarketValue", Num(1000)>>,
     <<"Net withdrawal (50.00)", "netAddition", Num(-50)>>,
     <<"Realised and unrealised gains 20.00", "realisedGainsLosses", Num(20)>>,
     <<"Investment income 30.50", "investmentIncome", Quot(61, 2)>>,
     <<"Other 5.00", "other", Num(5)>>,
     <<"Ending market value 1,100.00", "endingMarketValue", Num(1100)>>,
     <<"Ending market value 900.00", "endingMarketValue", Num(900)>>}

MovementInValueRow == <<"Movement in value 100.00", "movementInValue", Num(100)>>

\* Every given row of a set that lies inside the section has set its field:
\* the field holds the row's amount unless a later row of the set inside the
\* section is for the same field.
RowsSetTheirField(rows) ==
    \A row \in rows :
        \A j \in 1..Len(call.args[1]) :
            (/\ call.args[1][j] = row[1]
             /\ InsideMovementSection(call.args[1], j)
             /\ \A k \in (j + 1)..Len(call.args[1]) :
                    \A later \in rows :
                        (/\ call.args[1][k] = later[1]
                         /\ InsideMovementSection(call.args[1], k))
                            => later[2] # row[2])
                => result[row[2]] = row[3]

\* C19: every row inside the Movement in Value section that carries a label
\* keyword and ends in a currency token has set the field of its label to
\* its amount, the row 'Movement in value <amount>' included.
C19_SectionRowsSetTheirField ==
    Returned("extractMovementInValue")
        => RowsSetTheirField(MovementRows \cup {MovementInValueRow})

\* The part of C19 that holds: the rows of the six other labels set their
\* fields.
C19_HoldsForOtherLabels ==
    Returned("extractMovementInValue") => RowsSetTheirField(MovementRows)

\* The row 'Movement in value 100.00' lay inside the section and
\* movementInValue is null.
C19_MovementInValueRowSkipped ==
    /\ Returned("extractMovementInValue")
    /\ \E j \in 1..Len(call.args[1]) :
           /\ call.args[1][j] = MovementInValueRow[1]
           /\ InsideMovementSection(call.args[1], j)
    /\ result.movementInValue = NULL

\* A row of another label lay inside the section and has set its field.
C19_OtherLabelSet ==
    /\ Returned("extractMovementInValue")
    /\ call.args[1] = <<"Movement in Value", "Net withdrawal (50.00)",
                        "Ending market value 1,100.00">>
    /\ result.netAddition = Num(-50)
    /\ result.endingMarketValue = Num(1100)

-----------------------------------------------------------------------------
(* C20: the TWR row *)

\* The positions of the lines that contain both 'investment return before
\* expenses' and 'twr', in any case.
TwrRowLines(lines) ==
    {i \in 1..Len(lines) :
        /\ includes(toLowerCase(lines[i]), "investment return before expenses")
        /\ includes(toLowerCase(lines[i]), "twr")}

\* The words of a line: its maximal runs of characters other than spaces.
RECURSIVE WordsFrom(_, _)
WordsFrom(line, i) ==
    IF i > Len(line) THEN <<>>
    ELSE IF CharAt(line, i) \in SPACES THEN WordsFrom(line, i + 1)
    ELSE LET e == CHOOSE e \in i..Len(line) :
                      /\ \A k \in i..e : CharAt(line, k) \notin SPACES
                      /\ CharAt(line, e + 1) \in SPACES \cup {""}
         IN  <<SubSeq(line, i, e)>> \o WordsFrom(line, e + 1)

\* A word that is a signed percentage: an optional '-', digits, optionally
\* a point and digits, and '%'.
IsSignedPercentage(word) ==
    LET from == IF CharAt(word, 1) = "-" THEN 2 ELSE 1
        e == RunEnd(word, from, DIGITS)
        f == RunEnd(word, e + 2, DIGITS)
    IN  /\ e >= from
        /\ \/ (e + 1 = Len(word) /\ CharAt(word, e + 1) = "%")
           \/ (CharAt(word, e + 1) = "." /\ f + 1 = Len(word)
                 /\ CharAt(word, f + 1) = "%")

\* The tokens of a row as described: its words that are a signed percentage
\* or a lone '-', left to right.
PercentageOrDashWords(line) ==
    SelectSeq(WordsFrom(line, 1), LAMBDA w : w = "-" \/ IsSignedPercentage(w))

\* The value of the token at index k (counted from 0): null for '-' and when
\* the row has no such token.
TokenAt(tokens, k) ==
    IF k + 1 > Len(tokens) \/ tokens[k + 1] = "-" THEN NULL
    ELSE parsePercentage(tokens[k + 1])

\* The four fields read from the tokens of the first row of a set of rows.
FieldsReadFromRow(lines, rows) ==
    LET tokens == PercentageOrDashWords(lines[FirstPosition(rows)])
    IN  /\ result.oneYear = TokenAt(tokens, 0)
        /\ result.threeYears = TokenAt(tokens, 1)
        /\ result.sinceStart = TokenAt(tokens, 2)
        /\ result.sincePeriodStart = TokenAt(tokens, 3)

NoTwrFields ==
    /\ result.oneYear = NULL /\ result.threeYears = NULL
    /\ result.sinceStart = NULL /\ result.sincePeriodStart = NULL
    /\ result.sinceDates = Arr(<<>>)

\* C20: extractTWRValues reads the first line that contains both
\* 'investment return before expenses' and 'twr': its tokens that are a
\* signed percentage or a lone '-' give, left to right, oneYear, threeYears,
\* sinceStart and sincePeriodStart, a '-' giving null; without such a line
\* every field is null and sinceDates is empty.
C20_TwrRowTokensByPosition ==
    Returned("extractTWRValues")
        => IF TwrRowLines(call.args[1]) = {} THEN NoTwrFields
           ELSE FieldsReadFromRow(call.args[1], TwrRowLines(call.args[1]))

\* A line that the header test of the row loop takes: it contains '1 year'
\* or '3 year'.
TakenAsHeader(line) ==
    \/ includes(toLowerCase(line), "1 year")
    \/ includes(toLowerCase(line), "3 year")

\* Every '-' of the line is a word of its own or the sign of a percentage.
HyphensAreTokens(line) ==
    \A w \in {WordsFrom(line, 1)[k] : k \in 1..Len(WordsFrom(line, 1))} :
        includes(w, "-") => (w = "-" \/ IsSignedPercentage(w))

\* The part of C20 that holds: among the lines that are not taken as
\* header, the first one with both phrases is read as described when its
\* hyphens are tokens; when every line with both phrases is taken as header
\* or there is none, every field is null and sinceDates is empty.
C20_HoldsForRowsNotTakenAsHeader ==
    Returned("extractTWRValues")
        => LET rows == {i \in TwrRowLines(call.args[1]) :
                           ~TakenAsHeader(call.args[1][i])}
           IN  IF rows = {} THEN NoTwrFields
               ELSE HyphensAreTokens(call.args[1][FirstPosition(rows)])
                      => FieldsReadFromRow(call.args[1], rows)

\* The only line with both phrases also contains '1 year' and a percentage,
\* and every field is null.
C20_RowTakenAsHeader ==
    /\ Returned("extractTWRValues")
    /\ call.args[1] = <<"Investment return before expenses (TWR) 1 year 12.95%">>
    /\ NoTwrFields

\* The hyphen of 'Pre-tax' in the row has taken position 0: oneYear is null
\* and the row's first percentage is in threeYears.
C20_HyphenInLabelShiftsTokens ==
    /\ Returned("extractTWRValues")
    /\ call.args[1] = <<"Pre-tax investment return before expenses (TWR) 5.5% 6%">>
    /\ result.oneYear = NULL
    /\ result.threeYears = Num(550)
    /\ result.sinceStart = Num(600)

\* The row 'Investment return before expenses (TWR) 12.95% - 33.82% -4.47%'
\* after a header has been read: 12.95, null, 33.82 and -4.47.
C20_PlainRowRead ==
    /\ Returned("extractTWRValues")
    /\ call.args[1] = <<"Return over time 1 Year 3 Years Since 01/07/2020",
                        "Investment return before expenses (TWR) 12.95% - 33.82% -4.47%">>
    /\ result.oneYear = Num(1295)
    /\ result.threeYears = NULL
    /\ result.sinceStart = Num(3382)
    /\ result.sincePeriodStart = Num(-447)

-----------------------------------------------------------------------------
(* Claims about the formatters (checked under SpecParse) *)

\* A finite number, and the value a parseCurrency call returned.
IsFinite(x) == IsTagged(x) /\ IsNumber(x) /\ "val" \in DOMAIN x
CurrencyReturned(value) ==
    Returned("parseCurrency") /\ call.args[1] = value

\* C21: parseCurrency never raises and returns a finite number or null for
\* every input; '$' and thousands separators are stripped and a parenthesized
\* value is negated: '(1,234.56)' gives -1234.56, '$1,234.56' gives 1234.56,
\* the empty string gives null.
C21_ParseCurrencyIsTotalAndFinite ==
    Returned("parseCurrency") =>
        /\ "thrown" \notin DOMAIN result.value
        /\ result.value = NULL \/ IsFinite(result.value)
        /\ call.args[1] = Str("(1,234.56)") => result.value = Quot(-123456, 100)
        /\ call.args[1] = Str("$1,234.56") => result.value = Quot(123456, 100)
        /\ call.args[1] = Str("") => result.value = NULL

\* C21, the part that holds: on null, undefined, finite numbers and texts
\* whose cleaned form does not read as an infinite number, parseCurrency
\* returns a finite number or null, and the three examples come out as stated.
C21_HoldsForPrintedAmounts ==
    /\ Returned("parseCurrency")
    /\ IsTagged(call.args[1])
    /\ "inf" \notin DOMAIN call.args[1]
    /\ IsString(call.args[1]) =>
           call.args[1].str \notin {"Infinity", "-Infinity", "(Infinity)", "1e400"}
    => /\ result.value = NULL \/ IsFinite(result.value)
       /\ call.args[1] = Str("(1,234.56)") => result.value = Quot(-123456, 100)
       /\ call.args[1] = Str("$1,234.56") => result.value = Quot(123456, 100)
       /\ call.args[1] = Str("(1,234)") => result.value = Num(-1234)
       /\ call.args[1] = Str("") => result.value = NULL

\* C21: parseCurrency('Infinity') returns Infinity, which is not finite.
C21_InfinityReturned ==
    /\ CurrencyReturned(Str("Infinity"))
    /\ result.value = [type |-> "number", inf |-> 1]

\* C21: parseCurrency('(Infinity)') returns -Infinity.
C21_ParenthesizedInfinityReturned ==
    /\ CurrencyReturned(Str("(Infinity)"))
    /\ result.value = [type |-> "number", inf |-> -1]

\* C21: parseCurrency({toString: null}) raises a TypeError.
C21_Raises ==
    /\ CurrencyReturned([toString |-> NULL])
    /\ result.value = Thrown("TypeError")

\* C21: the parenthesized example is reached and negated.
C21_ParenthesizedNegated ==
    /\ CurrencyReturned(Str("(1,234.56)"))
    /\ result.value = Quot(-123456, 100)

-----------------------------------------------------------------------------
(* Claims about the TOTAL row's columns (checked under SpecParse) *)

\* The TOTAL row of the document given to parseAssetAllocationReport.
FoundTotalRow == findTotalRow(call.args[2])

\* What column i of a TOTAL row carries: the value of the i-th dollar token
\* and the number of the i-th percent token (in hundredths of a percent),
\* null where the row has no such token.
ColumnValue(row, i) ==
    IF i <= Len(DollarTokens(row, 1))
    THEN parseCurrency(Str(DollarTokens(row, 1)[i])) ELSE NULL
ColumnPercent(row, i) ==
    IF i <= Len(PercentTokens(row, 1))
    THEN parsePercentage(PercentTokens(row, 1)[i]) ELSE NULL

\* The column an entry is for, 0 when its name is none of the seven.
ColumnOf(entry) ==
    LET at == {i \in 1..Len(ASSET_CLASS_COLUMNS) :
                  entry.name = Str(ASSET_CLASS_COLUMNS[i])}
    IN  IF at = {} THEN 0 ELSE CHOOSE i \in at : TRUE

\* The sum of the values of the first k entries, null counting as nothing.
RECURSIVE EmittedValueSum(_, _)
EmittedValueSum(entries, k) ==
    IF k = 0 THEN 0
    ELSE EmittedValueSum(entries, k - 1)
           + (IF entries[k].value = NULL THEN 0 ELSE entries[k].value.val)

\* C23: when a TOTAL row is found, parseAssetAllocationReport emits entries
\* only for the seven fixed column names, each at most once and in column
\* order; the entry for column i carries the i-th dollar token and the i-th
\* percent token and is emitted only if at least one of the two is non-null;
\* totalValue is the sum of the values of the emitted entries.
C23_EntriesFollowColumns ==
    Returned("parseAssetAllocationReport") /\ FoundTotalRow # NULL =>
        LET entries == result.assetClasses.items
            row == FoundTotalRow.str
        IN  /\ Len(ASSET_CLASS_COLUMNS) = 7
            /\ \A k \in 1..Len(entries) :
                   /\ ColumnOf(entries[k]) \in 1..7
                   /\ \A l \in 1..(k - 1) :
                          ColumnOf(entries[l]) < ColumnOf(entries[k])
                   /\ entries[k].value = ColumnValue(row, ColumnOf(entries[k]))
                   /\ entries[k].percent = ColumnPercent(row, ColumnOf(entries[k]))
                   /\ entries[k].value # NULL \/ entries[k].percent # NULL
            /\ \A i \in 1..7 :
                   ColumnValue(row, i) # NULL \/ ColumnPercent(row, i) # NULL
                       => \E k \in 1..Len(entries) : ColumnOf(entries[k]) = i
            /\ result.totalValue = Num(EmittedValueSum(entries, Len(entries)))

\* C23: a TOTAL row with dollar and percent tokens for two columns has been
\* parsed into two entries.
C23_Witness ==
    /\ Returned("parseAssetAllocationReport")
    /\ FoundTotalRow = Str("Totals $100.00 25% $300.00 75%")
    /\ Len(result.assetClasses.items) = 2
    /\ result.assetClasses.items[2].name = Str("Australian Fixed Interest")
    /\ result.totalValue = Num(400)

\* C23: a TOTAL row with eight percent tokens and no dollar token has been
\* parsed into seven entries without values.
C23_WitnessMoreTokensThanColumns ==
    /\ Returned("parseAssetAllocationReport")
    /\ FoundTotalRow = Str("Total 1% 2% 3% 4% 5% 6% 7% 8%")
    /\ Len(result.assetClasses.items) = 7
    /\ result.assetClasses.items[7].percent = Num(700)
    /\ result.totalValue = Num(0)

-----------------------------------------------------------------------------
(* Claims about the two section extractors (checked under SpecParse) *)

\* A call of one of the two line-scanning extractors has returned.
SectionExtracted ==
    Returned("extractMovementInValue") \/ Returned("extractPortfolioReturn")

\* The phrases that start and that end the section the call scans.
StartsSection(line) ==
    IF call.fn = "extractMovementInValue"
    THEN /\ includes(toLowerCase(line), "movement in value")
         /\ ~includes(toLowerCase(line), "portfolio")
    ELSE /\ includes(toLowerCase(line), "portfolio return")
         /\ ~includes(toLowerCase(line), "investment return")
EndsSection(line) ==
    IF call.fn = "extractMovementInValue"
    THEN \/ includes(toLowerCase(line), "portfolio value versus")
         \/ includes(toLowerCase(line), "portfolio return")
    ELSE \/ includes(toLowerCase(line), "return over time")
         \/ includes(toLowerCase(line), "1 year")
         \/ includes(toLowerCase(line), "investment return before expenses")

\* The labels of the section the call scans, in the order they are tried,
\* each with its field and the test on the lower-cased line.
LabelHolds(field, lower) ==
    IF call.fn = "extractMovementInValue"
    THEN CASE field = "startingMarketValue" -> includes(lower, "starting market value")
           [] field = "netAddition" -> \/ includes(lower, "net addition")
                                       \/ includes(lower, "net withdrawal")
           [] field = "realisedGainsLosses" -> /\ includes(lower, "realised")
                                               /\ includes(lower, "gains")
           [] field = "investmentIncome" -> includes(lower, "investment income")
           [] field = "other" -> includes(lower, "other")
           [] field = "endingMarketValue" -> includes(lower, "ending market value")
           [] field = "movementInValue" -> startsWith(lower, "movement in value")
    ELSE CASE field = "realisedGainsLosses" -> /\ includes(lower, "realised")
                                               /\ includes(lower, "gains")
           [] field = "investmentIncome" -> includes(lower, "investment income")
           [] field = "credits" -> /\ includes(lower, "credits")
                                   /\ ~includes(lower, "excluding")
           [] field = "totalBeforeExpenses" ->
                  includes(lower, "total dollar return before expenses")
           [] field = "expenses" -> includes(lower, "investment expenses")
           [] field = "totalAfterExpenses" ->
                  includes(lower, "total dollar return after expenses")

\* The lines the label loop gets: after the first heading, before the first
\* line after it that ends the section, headings themselves left out.
CollectedLines(lines) ==
    LET starts == {j \in 1..Len(lines) : StartsSection(lines[j])}
        ends == {j \in 1..Len(lines) : EndsSection(lines[j])} \ starts
    IN  {j \in (1..Len(lines)) \ starts :
            /\ \E h \in starts : h < j
            /\ \A e \in ends : (\E h \in starts : h < e) => j < e}

\* The fields of the section the call scans, in the order their labels are
\* tried, and the field a line is for: the first whose label it carries.
FieldsInOrder ==
    IF call.fn = "extractMovementInValue"
    THEN <<"startingMarketValue", "netAddition", "realisedGainsLosses",
           "investmentIncome", "other", "endingMarketValue", "movementInValue">>
    ELSE <<"realisedGainsLosses", "investmentIncome", "credits",
           "totalBeforeExpenses", "expenses", "totalAfterExpenses">>
FieldOf(line) ==
    LET lower == toLowerCase(line)
        carried == {n \in 1..Len(FieldsInOrder) : LabelHolds(FieldsInOrder[n], lower)}
    IN  {FieldsInOrder[n] : n \in {n \in carried : \A m \in carried : n <= m}}

\* The extractor of the call, applied to other lines.
Extracted(lines) ==
    IF call.fn = "extractMovementInValue" THEN extractMovementInValue(lines)
    ELSE extractPortfolioReturn(lines)

\* C24: in both extractors each section line sets at most one field (the
\* field of the first label it carries), and a field ends with the value of
\* the last section line for it that ends in a currency token; a line of the
\* label without a value clears nothing, and a field no valued line is for
\* stays null.
C24_LastValuedLineWins ==
    SectionExtracted =>
        LET lines == call.args[1]
            collected == CollectedLines(lines)
            \* the collected lines that end in a currency token, and the
            \* field each of them is for
            valued == {j \in collected : LineValue(lines[j]) # NULL}
            fieldOf == [j \in valued |-> FieldOf(lines[j])]
        IN  /\ \A j \in valued : Cardinality(fieldOf[j]) <= 1
            /\ \A field \in DOMAIN result :
                   LET valuedOf == {j \in valued : field \in fieldOf[j]}
                   IN  IF valuedOf = {} THEN result[field] = NULL
                       ELSE result[field]
                              = LineValue(lines[
                                    CHOOSE j \in valuedOf : \A k \in valuedOf : k <= j])

\* C24: two rows of one label have been scanned by extractPortfolioReturn and
\* the second value is in the field.
C24_Witness ==
    /\ Returned("extractPortfolioReturn")
    /\ call.args[1] = <<"Portfolio Return", "Investment income 30.50",
                        "Investment income 9.00">>
    /\ result.investmentIncome = Num(9)

\* C24: two rows of one label have been scanned by extractMovementInValue.
C24_WitnessMovement ==
    /\ Returned("extractMovementInValue")
    /\ call.args[1] = <<"Movement in Value", "Ending market value 1,100.00",
                        "Ending market value 900.00">>
    /\ result.endingMarketValue = Num(900)

\* C24: a row of the label without a value came last and cleared nothing.
C24_WitnessNoValueKeeps ==
    /\ Returned("extractPortfolioReturn")
    /\ call.args[1] = <<"Portfolio Return", "Investment income 30.50",
                        "Investment income">>
    /\ result.investmentIncome = Quot(61, 2)

\* C24: a row that carries two labels has set the field of the first only.
C24_WitnessTwoLabels ==
    /\ Returned("extractPortfolioReturn")
    /\ call.args[1] = <<"Portfolio Return",
                        "Franking credits on investment income 1.00">>
    /\ result.investmentIncome = Num(1)
    /\ result.credits = NULL

\* The first line that starts the section, and the first line after it that
\* carries a phrase ending the section (one past the last line when there is
\* none).
SectionStart(lines) ==
    FirstPosition({i \in 1..Len(lines) : StartsSection(lines[i])})
SectionEnd(lines) ==
    FirstPosition({i \in (SectionStart(lines) + 1)..Len(lines) :
                      EndsSection(lines[i])} \cup {Len(lines) + 1})

\* C25: no line before the section's start marker and no line at or after
\* its end marker sets a field: the extractor returns what it returns for
\* the lines from the start marker up to the end marker alone, and with no
\* start marker every field is null.
C25_MarkersBoundTheSection ==
    SectionExtracted =>
        IF \A i \in 1..Len(call.args[1]) : ~StartsSection(call.args[1][i])
        THEN \A field \in DOMAIN result : result[field] = NULL
        ELSE result = Extracted(SubSeq(call.args[1], SectionStart(call.args[1]),
                                       SectionEnd(call.args[1]) - 1))

\* The part of C25 that holds: the Movement in Value section, and the
\* Portfolio Return section when no line carries both a start and an end
\* phrase.
C25_HoldsWhenEndIsNoStart ==
    (/\ SectionExtracted
     /\ \A i \in 1..Len(call.args[1]) :
            ~(StartsSection(call.args[1][i]) /\ EndsSection(call.args[1][i])))
        => IF \A i \in 1..Len(call.args[1]) : ~StartsSection(call.args[1][i])
           THEN \A field \in DOMAIN result : result[field] = NULL
           ELSE result = Extracted(SubSeq(call.args[1], SectionStart(call.args[1]),
                                          SectionEnd(call.args[1]) - 1))

\* C25: a row after the line 'Portfolio return over time', which carries the
\* end phrase 'return over time', has set a field.
C25_RowAfterEndMarkerSetsField ==
    /\ Returned("extractPortfolioReturn")
    /\ call.args[1] = <<"Portfolio Return", "Portfolio return over time",
                        "Investment income 9.00">>
    /\ result.investmentIncome = Num(9)

\* C25: the end marker of the Movement in Value section is honoured.
C25_MovementEndHonoured ==
    /\ Returned("extractMovementInValue")
    /\ call.args[1] = <<"Movement in Value", "Portfolio Return",
                        "Ending market value 900.00">>
    /\ result.endingMarketValue = NULL

-----------------------------------------------------------------------------
(* Claims about validateReport (checked under SpecParse) *)

\* A list with at least one element.
IsNonEmptyList(x) == IsTagged(x) /\ IsArray(x) /\ x.items # <<>>

\* C30: validateReport(report, 'asset_allocation') is valid only when both
\* assetClasses and holdings are non-empty; every report
\* parseAssetAllocationReport returns has holdings = [] and is therefore
\* invalid, with the error 'No holdings found'.
C30_ParsedAllocationReportIsInvalid ==
    /\ (Returned("validateReport") /\ call.args[2] = "asset_allocation"
           /\ result.valid)
         => /\ IsNonEmptyList(Get(call.args[1], "assetClasses"))
            /\ IsNonEmptyList(Get(call.args[1], "holdings"))
    /\ Returned("parseAssetAllocationReport")
         => /\ result.holdings = Arr(<<>>)
            /\ ~validateReport(result, "asset_allocation").valid
            /\ \E n \in 1..Len(validateReport(result, "asset_allocation").errors) :
                   validateReport(result, "asset_allocation").errors[n]
                     = "No holdings found"

\* C30: a report parsed from a TOTAL row, with its asset classes, has been
\* validated as an asset-allocation report and found invalid for its
\* holdings alone.
C30_Witness ==
    /\ Returned("validateReport")
    /\ call.args[2] = "asset_allocation"
    /\ IsNonEmptyList(Get(call.args[1], "assetClasses"))
    /\ call.args[1].holdings = Arr(<<>>)
    /\ result = [valid |-> FALSE, errors |-> <<"No holdings found">>]

\* C30: a report with asset classes and holdings has been found valid.
C30_WitnessValid ==
    /\ Returned("validateReport")
    /\ call.args[2] = "asset_allocation"
    /\ IsNonEmptyList(Get(call.args[1], "holdings"))
    /\ result.valid

-----------------------------------------------------------------------------
(* Claims about merging and validating fund models (checked under Spec) *)

\* C26: from the model held, updateFundModel with an allocation report and
\* then with a performance report gives the same model, in every field other
\* than lastUpdated, as the two updates in the opposite order.  The starting
\* models are those held before the clock first ticks: every sequence of
\* builders is reachable there, and the time enters an update by lastUpdated
\* alone.
C26_SerializedMergesCommute ==
    (fund # NULL /\ now = 0) =>
        LET allocationFirst ==
                [a \in AllocInputs |->
                    updateFundModel(fund, "asset_allocation", a, now)]
            performanceFirst ==
                [p \in PerfInputs |-> updateFundModel(fund, "performance", p, now)]
        IN  \A a \in AllocInputs, p \in PerfInputs :
                WithoutLastUpdated(
                    updateFundModel(allocationFirst[a], "performance", p, now))
                  = WithoutLastUpdated(
                        updateFundModel(performanceFirst[p], "asset_allocation",
                                        a, now))

\* C26: the empty model has been updated with an allocation report and then
\* with a performance report, the analysis is complete, and the model is the
\* one the opposite order gives.
C26_Witness ==
    /\ stage = "empty+allocation+performance"
    /\ fund.analysisStatus = "complete"
    /\ WithoutLastUpdated(fund)
         = WithoutLastUpdated(
               updateFundModel(
                   updateFundModel(createEmptyFundModel(fund.fundId, now),
                                   "performance", rawPerf, now),
                   "asset_allocation", rawAlloc, now))

C29_CompleteIffStatusComplete ==
    lastOp.op \in {"createFundModel", "updateFundModel"} =>
        (result.isComplete <=> fund.analysisStatus = "complete")

\* The part of C29 that holds: a model whose analysisStatus is 'complete' is
\* reported complete.
C29_StatusCompleteIsComplete ==
    (/\ lastOp.op \in {"createFundModel", "updateFundModel"}
     /\ fund.analysisStatus = "complete")
        => result.isComplete

\* C29: a model with both reports, the allocation report without asset
\* classes, is reported complete while its analysisStatus is not 'complete'.
C29_CompleteWithoutClassification ==
    /\ lastOp.op = "createFundModel"
    /\ result.isComplete
    /\ fund.assetAllocation.assetClasses = Arr(<<>>)
    /\ fund.analysisStatus # "complete"

-----------------------------------------------------------------------------
(* Claims about the upload wizard (checked under SpecWizard) *)

OtherStep(stepKey) ==
    IF stepKey = "performance" THEN "asset_allocation" ELSE "performance"

\* Both reports are in a parsedData object.
HoldsBoth(data) == Truthy(data.asset_allocation) /\ Truthy(data.performance)

\* One upload on each card and no other, both succeeded.
BothUploadsSucceeded ==
    /\ wizard.uploads = 2
    /\ wizard.uploadStatus.asset_allocation = "success"
    /\ wizard.uploadStatus.performance = "success"

\* C22: whenever an asset-allocation upload and a performance upload have
\* both succeeded, in whatever order their steps interleaved, parsedData holds
\* both reports and onComplete has been invoked with both of them.
C22_BothUploadsEndWithBothReports ==
    BothUploadsSucceeded =>
        /\ HoldsBoth(wizard.parsedData)
        /\ \E i \in DOMAIN wizard.onComplete : HoldsBoth(wizard.onComplete[i])

\* C22, the part that holds: an upload that succeeds while parsedData is
\* still what its handler's closure holds, and holds the other report, leaves
\* both reports in parsedData and passes both to onComplete.
C22_HoldsWhenClosureIsCurrent ==
    [][(/\ lastOp'.op = "succeeded"
        /\ wizard.awaiting[lastOp'.type] # NULL
        /\ wizard.awaiting[lastOp'.type].parsedData = wizard.parsedData
        /\ Truthy(wizard.parsedData[OtherStep(lastOp'.type)]))
       => /\ HoldsBoth(wizard'.parsedData)
          /\ wizard'.onComplete = Append(wizard.onComplete, wizard'.parsedData)]_vars

\* C22: the state the overlapping uploads end in: both cards show success,
\* parsedData has lost the allocation report and onComplete was never invoked.
C22_AllocationReportLost ==
    /\ BothUploadsSucceeded
    /\ wizard.awaiting.asset_allocation = NULL
    /\ wizard.awaiting.performance = NULL
    /\ wizard.parsedData.asset_allocation = NULL
    /\ Truthy(wizard.parsedData.performance)
    /\ Len(wizard.onPartialData) = 2
    /\ wizard.onComplete = <<>>

\* C28: a failing upload sets its step's status to 'error' and its error to
\* the message of the failure, keeps parsedData of both steps and the other
\* step's status, and invokes neither onPartialData nor onComplete.
C28_FailureKeepsParsedData ==
    [][lastOp'.op = "failed" /\ wizard.awaiting[lastOp'.type] # NULL
       => /\ wizard'.uploadStatus[lastOp'.type] = "error"
          /\ wizard'.errors[lastOp'.type]
               = Str(wizard.awaiting[lastOp'.type].outcome.message)
          /\ wizard'.errors[lastOp'.type] # Str("")
          /\ wizard'.parsedData = wizard.parsedData
          /\ wizard'.uploadStatus[OtherStep(lastOp'.type)]
               = wizard.uploadStatus[OtherStep(lastOp'.type)]
          /\ wizard'.errors[OtherStep(lastOp'.type)]
               = wizard.errors[OtherStep(lastOp'.type)]
          /\ wizard'.onPartialData = wizard.onPartialData
          /\ wizard'.onComplete = wizard.onComplete]_vars

\* C28: an allocation report dropped on the performance card after the
\* allocation report was loaded: the failure leaves the loaded report.
C28_Witness ==
    /\ lastOp = [op |-> "failed", type |-> "performance"]
    /\ wizard.uploadStatus.performance = "error"
    /\ wizard.errors.performance
         = Str("This appears to be a Investment Allocation Report. Please upload a Performance Report for this step.")
    /\ wizard.uploadStatus.asset_allocation = "success"
    /\ Truthy(wizard.parsedData.asset_allocation)
    /\ Len(wizard.onPartialData) = 1
    /\ wizard.onComplete = <<>>

\* C28: the other causes of failure, each with its message: the extraction
\* rejected, a text of less than 100 characters, a document of no known type.
C28_WitnessExtractionError ==
    /\ lastOp = [op |-> "failed", type |-> "asset_allocation"]
    /\ wizard.errors.asset_allocation
         = Str("Failed to extract text from PDF: Invalid PDF structure")
    /\ Truthy(wizard.parsedData.asset_allocation)

C28_WitnessShortText ==
    /\ lastOp = [op |-> "failed", type |-> "performance"]
    /\ wizard.errors.performance
         = Str("Could not extract text from PDF. The file may be image-based or corrupted.")
    /\ Truthy(wizard.parsedData.performance)

C28_WitnessUnidentified ==
    /\ lastOp = [op |-> "failed", type |-> "asset_allocation"]
    /\ wizard.errors.asset_allocation
         = Str("This appears to be a Unknown report type. Please upload a Asset Allocation Report for this step.")
    /\ wizard.uploadStatus.performance = "processing"

====
